---- MODULE Spec2Model ----
(***************************************************************************)
(* Model of the OpenGenerator generation orchestration engine:            *)
(*   - the merge engine of packages/core/src/types/generator.ts           *)
(*     (mergeGeneratedCode, parseSemver, compareSemver, mergeDependencies) *)
(*   - the builder and the generate() run of packages/core/src/generator.ts *)
(*   - Pipeline.run of packages/core/src/pipeline.ts                       *)
(*   - the Watcher of packages/core/src/watcher.ts, with its debounce      *)
(*     timer, the events of chokidar and the generations it starts         *)
(*   - writeGeneratedCode of packages/core/src/emitter.ts                  *)
(*   - extractRelations of the Prisma parser                               *)
(* Strings that the code inspects character by character (versions) are   *)
(* sequences of one-character strings.  A JavaScript Map is a sequence of  *)
(* entries in insertion order; a missing optional property is Undefined,   *)
(* and the optional boolean dev is "true", "false" or Undefined.           *)
(***************************************************************************)
EXTENDS Integers, Sequences, FiniteSets, TLC

Undefined == "undefined"

(* ---------------------------------------------------------------------- *)
(* Bounds of the model                                                     *)
(* ---------------------------------------------------------------------- *)
\* files over both arguments of one mergeGeneratedCode call
MaxFiles == 3
\* dependency entries over both arguments of one mergeDependencies call
MaxDeps == 2
\* mergeDependencies calls in one sequence of merges
MaxMerges == 3
\* plugins pushed on the generator, auth and deploy lists of one builder
MaxSelected == 3
\* schema transforms, code transforms and file filters of one pipeline config
MaxPipelineFns == 2

\* the watcher: the clock advances by Tick milliseconds up to MaxTime
Tick == 150

MaxTime == 600

\* the calls of start(), stop(), on() and off() and the events of
\* chokidar, together
MaxInputs == 4

\* the files of code.files in one call of writeGeneratedCode
MaxEmitFiles == 2

\* the models of one parsed schema
MaxModels == 2

(* ---------------------------------------------------------------------- *)
(* Generic helpers                                                         *)
(* ---------------------------------------------------------------------- *)
Range(s) == {s[i] : i \in 1..Len(s)}

SeqsUpTo(S, n) == UNION {[1..k -> S] : k \in 0..n}

\* Map.get on a Map kept as a sequence of its values in insertion order:
\* the index of the file with the path, or 0
RECURSIVE IndexOfPath(_, _, _)
IndexOfPath(fileMap, path, i) ==
  IF i > Len(fileMap) THEN 0
  ELSE IF fileMap[i].path = path THEN i
  ELSE IndexOfPath(fileMap, path, i + 1)

\* the index of the dependency with the name, or 0
RECURSIVE IndexOfName(_, _, _)
IndexOfName(merged, name, i) ==
  IF i > Len(merged) THEN 0
  ELSE IF merged[i].name = name THEN i
  ELSE IndexOfName(merged, name, i + 1)

(* ---------------------------------------------------------------------- *)
(* Semver: parseSemver / compareSemver                                     *)
(* ---------------------------------------------------------------------- *)
DigitChars == <<"0", "1", "2", "3", "4", "5", "6", "7", "8", "9">>

IsDigit(c) == \E i \in 1..10 : DigitChars[i] = c

DigitVal(c) == (CHOOSE i \in 1..10 : DigitChars[i] = c) - 1

\* the characters of the regular expression /^[\^~>=<]+/
OperatorChars == {"^", "~", ">", "=", "<"}

\* version.replace(/^[\^~>=<]+/, '')
RECURSIVE StripOperator(_)
StripOperator(v) ==
  IF v # <<>> /\ Head(v) \in OperatorChars THEN StripOperator(Tail(v)) ELSE v

\* String.prototype.split(sep): the pieces between the separators
RECURSIVE SplitOn(_, _, _)
SplitOn(s, sep, cur) ==
  IF s = <<>> THEN <<cur>>
  ELSE IF Head(s) = sep THEN <<cur>> \o SplitOn(Tail(s), sep, <<>>)
  ELSE SplitOn(Tail(s), sep, Append(cur, Head(s)))

\* parseInt(p) || 0 : the leading decimal digits, 0 when there are none (NaN)
RECURSIVE ParseIntFrom(_, _, _)
ParseIntFrom(p, i, acc) ==
  IF i > Len(p) \/ ~IsDigit(p[i]) THEN acc
  ELSE ParseIntFrom(p, i + 1, acc * 10 + DigitVal(p[i]))

\* mutant: only the first digit of a part is read
ParseIntOrZero_FirstDigit(p) ==
  IF p # <<>> /\ IsDigit(p[1]) THEN DigitVal(p[1]) ELSE 0

ParseIntOrZero(p) == ParseIntFrom(p, 1, 0)

parseSemver(version) ==
  LET cleaned == StripOperator(version)
      pieces  == SplitOn(cleaned, "-", <<>>)
      main    == pieces[1]
      parts   == SplitOn(main, ".", <<>>)
      part(i) == IF i <= Len(parts) THEN ParseIntOrZero(parts[i]) ELSE 0
  IN [major |-> part(1), minor |-> part(2), patch |-> part(3),
      \* prerelease is undefined when the split gives one piece only
      prereleaseDefined |-> Len(pieces) >= 2,
      prerelease |-> IF Len(pieces) >= 2 THEN pieces[2] ELSE <<>>]

\* JavaScript truthiness of parseSemver(..).prerelease
HasPrerelease(ver) == ver.prereleaseDefined /\ ver.prerelease # <<>>

\* mutant: the prerelease rule is left out
compareSemver_NoPrerelease(a, b) ==
  LET verA == parseSemver(a)
      verB == parseSemver(b)
  IN IF verA.major # verB.major THEN (IF verA.major > verB.major THEN 1 ELSE -1)
     ELSE IF verA.minor # verB.minor THEN (IF verA.minor > verB.minor THEN 1 ELSE -1)
     ELSE IF verA.patch # verB.patch THEN (IF verA.patch > verB.patch THEN 1 ELSE -1)
     ELSE 0

compareSemver(a, b) ==
  LET verA == parseSemver(a)
      verB == parseSemver(b)
  IN IF verA.major # verB.major THEN (IF verA.major > verB.major THEN 1 ELSE -1)
     ELSE IF verA.minor # verB.minor THEN (IF verA.minor > verB.minor THEN 1 ELSE -1)
     ELSE IF verA.patch # verB.patch THEN (IF verA.patch > verB.patch THEN 1 ELSE -1)
     ELSE IF HasPrerelease(verA) /\ ~HasPrerelease(verB) THEN -1
     ELSE IF ~HasPrerelease(verA) /\ HasPrerelease(verB) THEN 1
     ELSE 0

(* ---------------------------------------------------------------------- *)
(* mergeDependencies                                                       *)
(* ---------------------------------------------------------------------- *)
\* mutant: only the incoming entry's dev flag is looked at
MergeDepStep_IncomingDevOnly(merged, dep) ==
  LET i == IndexOfName(merged, dep.name, 1)
  IN IF i = 0 THEN Append(merged, dep)
     ELSE LET existing == merged[i]
              afterVersion == IF compareSemver(dep.version, existing.version) > 0
                              THEN [merged EXCEPT ![i] = dep]
                              ELSE merged
          IN IF dep.dev = "false"
             THEN [afterVersion EXCEPT ![i] = [afterVersion[i] EXCEPT !.dev = "false"]]
             ELSE afterVersion

\* one iteration of the loop body over [...a, ...b]
MergeDepStep(merged, dep) ==
  LET i == IndexOfName(merged, dep.name, 1)
  IN IF i = 0 THEN Append(merged, dep)
     ELSE LET existing == merged[i]
              afterVersion == IF compareSemver(dep.version, existing.version) > 0
                              THEN [merged EXCEPT ![i] = dep]
                              ELSE merged
          IN IF existing.dev = "false" \/ dep.dev = "false"
             THEN [afterVersion EXCEPT ![i] = [afterVersion[i] EXCEPT !.dev = "false"]]
             ELSE afterVersion

RECURSIVE MergeDepLoop(_, _)
MergeDepLoop(merged, deps) ==
  IF deps = <<>> THEN merged
  ELSE MergeDepLoop(MergeDepStep(merged, Head(deps)), Tail(deps))

mergeDependencies(a, b) == MergeDepLoop(<<>>, a \o b)

(* ---------------------------------------------------------------------- *)
(* mergeGeneratedCode                                                      *)
(* ---------------------------------------------------------------------- *)
\* mutant: the message does not name the path
ConflictMessage_NoPath(path) == <<"File conflict: ", "a file", " is generated by multiple plugins">>

ConflictMessage(path) == <<"File conflict: ", path, " is generated by multiple plugins">>

\* the loop over allFiles; the result is the fileMap, or the thrown message
RECURSIVE MergeFileLoop(_, _, _)
MergeFileLoop(fileMap, files, fileStrategy) ==
  IF files = <<>> THEN [threw |-> FALSE, message |-> <<>>, fileMap |-> fileMap]
  ELSE LET file == Head(files)
           i == IndexOfPath(fileMap, file.path, 1)
       IN IF i # 0
          THEN IF fileStrategy = "error"
               THEN [threw |-> TRUE, message |-> ConflictMessage(file.path), fileMap |-> <<>>]
               ELSE IF fileStrategy = "last-wins"
               THEN MergeFileLoop([fileMap EXCEPT ![i] = file], Tail(files), fileStrategy)
               ELSE MergeFileLoop(fileMap, Tail(files), fileStrategy)
          ELSE MergeFileLoop(Append(fileMap, file), Tail(files), fileStrategy)

\* mutant: first-wins is the default
FileStrategyOf_FirstWinsDefault(options) == IF options = Undefined THEN "first-wins" ELSE options

\* options.fileStrategy with its default
FileStrategyOf(options) == IF options = Undefined THEN "last-wins" ELSE options

\* the returned object has the properties files and dependencies only
mergeGeneratedCode(a, b, options) ==
  LET loop == MergeFileLoop(<<>>, a.files \o b.files, FileStrategyOf(options))
  IN IF loop.threw
     THEN [threw |-> TRUE, message |-> loop.message,
           files |-> <<>>, dependencies |-> <<>>, metadata |-> Undefined]
     ELSE [threw |-> FALSE, message |-> <<>>,
           files |-> loop.fileMap,
           dependencies |-> mergeDependencies(a.dependencies, b.dependencies),
           metadata |-> Undefined]

\* the GeneratedCode a successful merge returns
CodeOf(r) == [files |-> r.files, dependencies |-> r.dependencies, metadata |-> r.metadata]

(* ---------------------------------------------------------------------- *)
(* Inputs of the merge engine                                              *)
(* ---------------------------------------------------------------------- *)
\* decimal text of a number below 100
FormatNat(n) ==
  IF n < 10 THEN <<DigitChars[n + 1]>>
  ELSE <<DigitChars[(n \div 10) + 1], DigitChars[(n % 10) + 1]>>

\* a version string written from its parts, with the parts kept beside it
MkVersion(op, major, minor, patch, pre) ==
  [str |-> op \o FormatNat(major) \o <<".">> \o FormatNat(minor) \o <<".">>
           \o FormatNat(patch) \o (IF pre = <<>> THEN <<>> ELSE <<"-">> \o pre),
   tuple |-> <<major, minor, patch>>,
   release |-> pre = <<>>]

Beta1 == <<"b", "e", "t", "a", ".", "1">>
Rc == <<"r", "c">>

\* ^1.0.0  ~1.0.0  ^1.0.0-beta.1  1.0.0-rc  ^1.9.0  >=1.10.0  ~1.10.1-beta.1  2.0.0
VersionTable ==
  { MkVersion(<<"^">>, 1, 0, 0, <<>>),
    MkVersion(<<"~">>, 1, 0, 0, <<>>),
    MkVersion(<<"^">>, 1, 0, 0, Beta1),
    MkVersion(<<>>, 1, 0, 0, Rc),
    MkVersion(<<"^">>, 1, 9, 0, <<>>),
    MkVersion(<<">", "=">>, 1, 10, 0, <<>>),
    MkVersion(<<"~">>, 1, 10, 1, Beta1),
    MkVersion(<<>>, 2, 0, 0, <<>>) }

\* the versions above and ^4.18.0 of the mock generator
KnownVersions == VersionTable \cup {MkVersion(<<"^">>, 4, 18, 0, <<>>)}

VersionOf(str) == CHOOSE v \in KnownVersions : v.str = str

DevValues == {"true", "false", Undefined}

Caret100 == MkVersion(<<"^">>, 1, 0, 0, <<>>).str
Tilde100 == MkVersion(<<"~">>, 1, 0, 0, <<>>).str
Caret190 == MkVersion(<<"^">>, 1, 9, 0, <<>>).str
Ge1100 == MkVersion(<<">", "=">>, 1, 10, 0, <<>>).str

\* Dependency { name, version, dev? }
DependencySet ==
  {[name |-> "pkg", version |-> v.str, dev |-> d] : v \in VersionTable, d \in DevValues}
  \cup {[name |-> "zod", version |-> Caret100, dev |-> Undefined]}

\* GeneratedFile { path, content }
GeneratedFileSet ==
  {[path |-> p, content |-> c] : p \in {"index.ts", "a.ts"}, c \in {"old", "new"}}

\* pairs of lists with at most n entries together
ListPairs(S, n) ==
  UNION {[1..ln[1] -> S] \X [1..ln[2] -> S] :
           ln \in {l \in (0..n) \X (0..n) : l[1] + l[2] <= n}}

PkgDep(v, d) == [name |-> "pkg", version |-> v, dev |-> d]

\* dependency lists of the GeneratedCode values given to mergeGeneratedCode
CodeDependencyLists ==
  { <<>>,
    <<PkgDep(Caret100, Undefined)>>,
    <<PkgDep(Caret100, "true"), PkgDep(MkVersion(<<>>, 2, 0, 0, <<>>).str, Undefined)>> }

MetadataValues == {Undefined, "meta"}

FileStrategyOptions == {Undefined, "last-wins", "first-wins", "error"}

(* ---------------------------------------------------------------------- *)
(* State                                                                   *)
(* ---------------------------------------------------------------------- *)
VARIABLES
  \* one call mergeGeneratedCode(mA, mB, {fileStrategy: mOptions})
  mA, mB, mOptions, mResult, mpc,
  \* mergeDependencies(dA, dB) with its result dAcc; or dAcc as the list that
  \* dMerges calls have built, and every entry contributed to it
  dA, dB, dAcc, dpc, dMerges, dContributed,
  \* the OpenGenerator builder: its selections
  selectedParser, selectedGenerators, selectedAdapter,
  selectedAuth, selectedDatabase, selectedDeploy,
  \* one generate() run: the statement it is at, the loop index, the parsed
  \* schema, the accumulator, the files given to the emitter, and the record
  \* of the plugin calls made and of what adapt was given
  pc, idx, schema, code, written, calls, adaptInput, deployInput,
  \* the error a run was rejected with, and the list collectDependencies
  \* was given
  error, collectInput,
  \* the value a call of validate() returned, until the caller has it
  validation,
  \* a Pipeline: its config and the options of run(), the stage run() is at
  \* and the part of runStage it is in,
  \* the locals schema and code, this.warnings, the error of the failing
  \* stage, and the events given to emitEvent
  pConfig, pOptions, pStage, pPhase, pSchema, pCode, pWarnings, pError, events,
  \* a Watcher: its fields; the chokidar watchers that are attached and not
  \* closed, the timers of setTimeout that are pending, the calls of
  \* generator.generate that have not settled, the number of such calls
  \* made, the clock, what the last call of handleEvent gave the handlers,
  \* and whether stop() is awaiting close()
  fsWatcher, debounceTimer, isGenerating, eventHandlers, lastGeneratedCode,
  openWatchers, timers, pendingGenerations, generateCalls, now, delivered, closing,
  \* the number of calls of start(), and of calls of start(), stop(), on()
  \* and off() and events of chokidar together
  starts, inputs,
  \* the history of the watcher that the properties read: stop() was called
  \* and start() not since, the number of calls of stop(), the time of the
  \* last change or add, a regeneration is asked for and not begun, the
  \* number of times one was asked for and the number begun by a timer, the
  \* same three for the changes that arrived during a generation, the
  \* generations begun by a timer after stop(), and the generations that
  \* failed
  stopped, stops, lastEventAt, owed, requests, debounced,
  missed, missedRuns, followUps, afterStop, failures,
  \* one call writeGeneratedCode(emitCode, outputDir, emitOptions): the file
  \* system and the callbacks as each file meets them, the loop index, the
  \* result being built, and where the call is
  emitCode, emitOptions, emitIdx, emitResult, emitPc,
  \* one call extractRelations(parsedModels) and its result
  parsedModels, relations, relPc

builderVars == <<selectedParser, selectedGenerators, selectedAdapter,
                 selectedAuth, selectedDatabase, selectedDeploy>>
runVars == <<pc, idx, schema, code, written, calls, adaptInput, deployInput, error, collectInput>>
mergeVars == <<mA, mB, mOptions, mResult, mpc>>
depVars == <<dA, dB, dAcc, dpc, dMerges, dContributed>>
pipeVars == <<validation, pConfig, pOptions, pStage, pPhase, pSchema, pCode,
              pWarnings, pError, events>>
watcherFields == <<fsWatcher, debounceTimer, isGenerating, eventHandlers, lastGeneratedCode>>
watcherEnv == <<openWatchers, timers, pendingGenerations, generateCalls, now, delivered,
                closing, starts, inputs>>
watcherHistory == <<stopped, stops, lastEventAt, owed, requests, debounced,
                    missed, missedRuns, followUps, afterStop, failures>>
watchVars == <<watcherFields, watcherEnv, watcherHistory>>
emitVars == <<emitCode, emitOptions, emitIdx, emitResult, emitPc>>
relVars == <<parsedModels, relations, relPc>>
vars == <<mergeVars, depVars, builderVars, runVars, pipeVars, watchVars, emitVars, relVars>>

EmptyCode == [files |-> <<>>, dependencies |-> <<>>, metadata |-> Undefined]

NoResult == [threw |-> FALSE, message |-> <<>>, files |-> <<>>,
             dependencies |-> <<>>, metadata |-> Undefined]

MergeIdle ==
  /\ mA = [files |-> <<>>, dependencies |-> <<>>, metadata |-> Undefined]
  /\ mB = [files |-> <<>>, dependencies |-> <<>>, metadata |-> Undefined]
  /\ mOptions = Undefined
  /\ mResult = NoResult
  /\ mpc = "off"

DepIdle ==
  /\ dA = <<>> /\ dB = <<>> /\ dAcc = <<>>
  /\ dpc = "off" /\ dMerges = 0 /\ dContributed = {}

\* a builder as constructed
BuilderNew ==
  /\ selectedParser = Undefined
  /\ selectedGenerators = <<>>
  /\ selectedAdapter = Undefined
  /\ selectedAuth = <<>>
  /\ selectedDatabase = Undefined
  /\ selectedDeploy = <<>>

\* no error: what error holds while nothing was thrown
NoError == [thrownBy |-> Undefined, message |-> <<>>]

\* new Error('No parser selected. Call .parser() first.')
NoParserError ==
  [thrownBy |-> "OpenGenerator.parse",
   message |-> <<"No", "parser", "selected.", "Call", ".parser()", "first.">>]

RunIdle ==
  /\ pc = "idle" /\ idx = 1 /\ schema = Undefined /\ code = EmptyCode
  /\ written = <<>> /\ calls = <<>> /\ adaptInput = EmptyCode /\ deployInput = <<>>
  /\ error = NoError /\ collectInput = <<>>

\* validate() has not been called, or its result has been taken
NotValidated == [called |-> FALSE, valid |-> FALSE, errors |-> <<>>, warnings |-> <<>>]

\* a hooks object that is not there
NoHooks == [defined |-> FALSE, onStageStart |-> Undefined,
            onStageComplete |-> Undefined, onStageError |-> Undefined]

NoConfig == [schemaTransforms |-> <<>>, codeTransforms |-> <<>>,
             fileFilters |-> <<>>, hooks |-> NoHooks]

NoOptions == [write |-> Undefined, dryRun |-> Undefined]

NoSchema == [ir |-> Undefined, applied |-> <<>>]

\* the values of the run of a pipeline before run() is called
PipelineRunIdle ==
  /\ pStage = "none" /\ pSchema = NoSchema /\ pCode = EmptyCode
  /\ pWarnings = <<>> /\ pError = NoError /\ events = <<>>

\* no pipeline has been constructed
PipelineOff ==
  /\ validation = NotValidated
  /\ pConfig = NoConfig /\ pOptions = NoOptions /\ pPhase = "off"
  /\ PipelineRunIdle

\* a Watcher as constructed: no chokidar watcher, no timer, no generation
WatcherNew ==
  /\ fsWatcher = <<>> /\ debounceTimer = <<>> /\ isGenerating = FALSE
  /\ eventHandlers = <<>> /\ lastGeneratedCode = <<>>
  /\ openWatchers = {} /\ timers = {} /\ pendingGenerations = 0
  /\ generateCalls = 0 /\ now = 0 /\ delivered = <<>> /\ closing = FALSE
  /\ starts = 0 /\ inputs = 0
  /\ stopped = FALSE /\ stops = 0 /\ lastEventAt = <<>>
  /\ owed = FALSE /\ requests = 0 /\ debounced = 0
  /\ missed = FALSE /\ missedRuns = 0 /\ followUps = 0
  /\ afterStop = 0 /\ failures = 0

\* const result: EmitResult = {written: [], skipped: [], failed: [], totalBytes: 0}
NewEmitResult == [written |-> <<>>, skipped |-> <<>>, failed |-> <<>>, totalBytes |-> 0]

NoEmitOptions == [overwrite |-> Undefined, dryRun |-> Undefined, createDirs |-> Undefined,
                  beforeWrite |-> Undefined, afterWrite |-> Undefined]

\* writeGeneratedCode has not been called
EmitIdle ==
  /\ emitCode = <<>> /\ emitOptions = NoEmitOptions /\ emitIdx = 1
  /\ emitResult = NewEmitResult /\ emitPc = "off"

\* extractRelations has not been called
RelIdle == parsedModels = <<>> /\ relations = <<>> /\ relPc = "off"

(* ---------------------------------------------------------------------- *)
(* Calls of mergeGeneratedCode                                             *)
(* ---------------------------------------------------------------------- *)
MergeInit ==
  /\ \E pr \in ListPairs(GeneratedFileSet, MaxFiles) :
       \E da \in CodeDependencyLists, db \in CodeDependencyLists :
         \E ma \in MetadataValues, mb \in MetadataValues :
           /\ mA = [files |-> pr[1], dependencies |-> da, metadata |-> ma]
           /\ mB = [files |-> pr[2], dependencies |-> db, metadata |-> mb]
  /\ mOptions \in FileStrategyOptions
  /\ mResult = NoResult
  /\ mpc = "call"
  /\ DepIdle /\ BuilderNew /\ RunIdle /\ PipelineOff
  /\ WatcherNew /\ EmitIdle /\ RelIdle

CallMergeGeneratedCode ==
  /\ mpc = "call"
  /\ mResult' = mergeGeneratedCode(mA, mB, mOptions)
  /\ mpc' = "returned"
  /\ UNCHANGED <<mA, mB, mOptions, depVars, builderVars, runVars, pipeVars,
                 watchVars, emitVars, relVars>>

MergeNext == CallMergeGeneratedCode

SpecMerge == MergeInit /\ [][MergeNext]_vars

(* ---------------------------------------------------------------------- *)
(* Calls of mergeDependencies                                              *)
(* ---------------------------------------------------------------------- *)
DepInit ==
  /\ \E pr \in ListPairs(DependencySet, MaxDeps) : dA = pr[1] /\ dB = pr[2]
  /\ dAcc = <<>>
  /\ dpc = "call"
  /\ dMerges = 0
  /\ dContributed = {}
  /\ MergeIdle /\ BuilderNew /\ RunIdle /\ PipelineOff
  /\ WatcherNew /\ EmitIdle /\ RelIdle

CallMergeDependencies ==
  /\ dpc = "call"
  /\ dAcc' = mergeDependencies(dA, dB)
  /\ dContributed' = Range(dA \o dB)
  /\ dpc' = "merged"
  /\ UNCHANGED <<dA, dB, dMerges, mergeVars, builderVars, runVars, pipeVars,
                 watchVars, emitVars, relVars>>

DepNext == CallMergeDependencies

SpecDeps == DepInit /\ [][DepNext]_vars

(* ---------------------------------------------------------------------- *)
(* A sequence of mergeDependencies calls over any number of lists          *)
(* ---------------------------------------------------------------------- *)
FoldEntries ==
  {PkgDep(v, d) : v \in {Caret100, MkVersion(<<>>, 1, 0, 0, Rc).str, Caret190, Ge1100,
                          MkVersion(<<"~">>, 1, 10, 1, Beta1).str},
                   d \in DevValues}
  \cup {[name |-> "zod", version |-> Caret100, dev |-> Undefined]}

\* the lists folded in: empty, one entry, or two entries of pkg
FoldLists ==
  SeqsUpTo(FoldEntries, 1)
  \cup {<<PkgDep(v, d), PkgDep(w, e)>> : v \in {Caret100, Ge1100}, w \in {Caret100, Ge1100},
                                         d \in {"true", "false"}, e \in {"true", "false"}}

FoldInit ==
  /\ dA = <<>> /\ dB = <<>> /\ dAcc = <<>>
  /\ dpc = "fold" /\ dMerges = 0 /\ dContributed = {}
  /\ MergeIdle /\ BuilderNew /\ RunIdle /\ PipelineOff
  /\ WatcherNew /\ EmitIdle /\ RelIdle

\* a further list merged with the list so far, as second or as first argument
FoldMergeDependencies ==
  /\ dpc = "fold"
  /\ dMerges < MaxMerges
  /\ \E more \in FoldLists :
       /\ \/ dAcc' = mergeDependencies(dAcc, more)
          \/ dAcc' = mergeDependencies(more, dAcc)
       /\ dContributed' = dContributed \cup Range(more)
  /\ dMerges' = dMerges + 1
  /\ UNCHANGED <<dA, dB, dpc, mergeVars, builderVars, runVars, pipeVars,
                 watchVars, emitVars, relVars>>

FoldNext == FoldMergeDependencies

SpecFold == FoldInit /\ [][FoldNext]_vars

(* ---------------------------------------------------------------------- *)
(* Plugins: stubs of the six plugin contracts                              *)
(* ---------------------------------------------------------------------- *)
\* priority?: number is <<>> when missing and <<n>> when given
ParserPlugins == {[name |-> "mock-parser"], [name |-> "bad-parser"]}

GeneratorPlugins ==
  { [name |-> "high",  priority |-> <<10>>],
    [name |-> "low",   priority |-> <<5>>],
    [name |-> "plain", priority |-> <<>>],
    [name |-> "zero",  priority |-> <<0>>],
    [name |-> "boom",  priority |-> <<7>>] }

AdapterPlugins ==
  {[name |-> "express"], [name |-> "bare"], [name |-> "twice"], [name |-> "broken"]}

AuthPlugins ==
  { [name |-> "jwt",    priority |-> <<>>],
    [name |-> "apikey", priority |-> <<0>>],
    [name |-> "oauth",  priority |-> <<1>>] }

DatabasePlugins == {[name |-> "prisma"]}

DeployPlugins ==
  { [name |-> "docker", priority |-> <<>>],
    [name |-> "fly",    priority |-> <<2>>],
    [name |-> "crash",  priority |-> <<1>>] }

\* the plugins whose parse, generate or adapt throws (or rejects)
PluginThrows(name) == name \in {"bad-parser", "boom", "broken", "crash"}

\* the error such a plugin throws
PluginError(name) == [thrownBy |-> name, message |-> <<name, "failed">>]

File(p, c) == [path |-> p, content |-> c]

Code(files, deps) == [files |-> files, dependencies |-> deps, metadata |-> Undefined]


\* the dependency the mock generator both emits and declares
Express4180 == [name |-> "express", version |-> MkVersion(<<"^">>, 4, 18, 0, <<>>).str,
                dev |-> Undefined]

\* GeneratorPlugin.generate(schema, options); plain is the mock generator
\* of the tests
GeneratorGenerate(name, ir) ==
  CASE name = "high"  -> Code(<<File("common.ts", "high"), File("high.ts", "h")>>,
                              <<PkgDep(Caret190, "true")>>)
    [] name = "low"   -> Code(<<File("common.ts", "low"), File("low.ts", "l")>>,
                              <<PkgDep(Ge1100, Undefined)>>)
    [] name = "plain" -> Code(<<File("plain.ts", "p")>>, <<Express4180>>)
    [] name = "zero"  -> Code(<<File("zero.ts", "z")>>, <<>>)
    [] OTHER          -> EmptyCode

\* AdapterPlugin.adapt(code, options): express wraps what it is given in a
\* server file, bare returns a server file only, twice returns two files
\* with one path
AdapterAdapt(name, input) ==
  CASE name = "express" -> [files |-> <<File("server.ts", "express")>> \o input.files,
                            dependencies |-> input.dependencies,
                            metadata |-> "meta"]
    [] name = "bare"    -> Code(<<File("server.ts", "bare")>>, <<>>)
    [] name = "twice"   -> Code(<<File("server.ts", "one"), File("server.ts", "two")>>,
                                <<>>)
    [] OTHER            -> EmptyCode

\* AuthPlugin.generate(schema, options)
AuthGenerate(name, ir) ==
  Code(<<File("auth.ts", name)>>, <<>>)

\* DatabasePlugin.generate(schema, options)
DatabaseGenerate(name, ir) ==
  Code(<<File("db.ts", name)>>, <<PkgDep(Tilde100, "false")>>)

\* DeployPlugin.generate(code, options): the manifest tells whether the code
\* it was given has a server file
DeployGenerate(name, input) ==
  Code(<<File(name, IF \E i \in 1..Len(input.files) : input.files[i].path = "server.ts"
                    THEN "server" ELSE "static")>>, <<>>)

\* getDependencies() and getPeerDependencies?.() ?? []
GetDependencies(name) ==
  CASE name = "express" -> <<[name |-> "zod", version |-> Caret100, dev |-> Undefined]>>
    [] name = "high"    -> <<PkgDep(Caret100, Undefined)>>
    [] name = "plain"   -> <<Express4180>>
    [] name = "docker"  -> <<PkgDep(MkVersion(<<>>, 2, 0, 0, <<>>).str, "true")>>
    [] OTHER            -> <<>>

GetPeerDependencies(name) ==
  CASE name = "prisma" -> <<PkgDep(Caret190, "true")>>
    [] OTHER           -> <<>>

(* ---------------------------------------------------------------------- *)
(* OpenGenerator: the builder                                              *)
(* ---------------------------------------------------------------------- *)
\* plugin.priority ?? 0
PriorityOrZero(plugin) == IF plugin.priority = <<>> THEN 0 ELSE plugin.priority[1]

\* mutant: lower priority first
Comparator_Ascending(a, b) == PriorityOrZero(a) - PriorityOrZero(b)

\* the compare function (a, b) => (b.priority ?? 0) - (a.priority ?? 0)
Comparator(a, b) == PriorityOrZero(b) - PriorityOrZero(a)

\* x goes before the first entry that the compare function puts after it
RECURSIVE InsertSorted(_, _)
InsertSorted(sorted, x) ==
  IF sorted = <<>> THEN <<x>>
  ELSE IF Comparator(Head(sorted), x) > 0 THEN <<x>> \o sorted
  ELSE <<Head(sorted)>> \o InsertSorted(Tail(sorted), x)

\* Array.prototype.sort with the compare function: a stable sort
RECURSIVE SortFrom(_, _)
SortFrom(sorted, rest) ==
  IF rest = <<>> THEN sorted
  ELSE SortFrom(InsertSorted(sorted, Head(rest)), Tail(rest))

SortByPriority(list) == SortFrom(<<>>, list)

\* the entry pushed for a plugin; reg is its number in the order of
\* registration on that list (kept for the properties, not read by the code)
Entry(plugin, list) ==
  [name |-> plugin.name, priority |-> plugin.priority, reg |-> Len(list) + 1]

SelectedCount == Len(selectedGenerators) + Len(selectedAuth) + Len(selectedDeploy)

\* the builder is configured between runs, not during one
Configuring == pc = "idle" /\ validation = NotValidated /\ pPhase = "off"

parser(plugin) ==
  /\ Configuring
  /\ selectedParser' = plugin.name
  /\ UNCHANGED <<selectedGenerators, selectedAdapter, selectedAuth,
                 selectedDatabase, selectedDeploy, runVars, mergeVars, depVars, pipeVars,
                 watchVars, emitVars, relVars>>

generator(plugin) ==
  /\ Configuring
  /\ SelectedCount < MaxSelected
  /\ selectedGenerators' =
       SortByPriority(Append(selectedGenerators, Entry(plugin, selectedGenerators)))
  /\ UNCHANGED <<selectedParser, selectedAdapter, selectedAuth,
                 selectedDatabase, selectedDeploy, runVars, mergeVars, depVars, pipeVars,
                 watchVars, emitVars, relVars>>

adapter(plugin) ==
  /\ Configuring
  /\ selectedAdapter' = plugin.name
  /\ UNCHANGED <<selectedParser, selectedGenerators, selectedAuth,
                 selectedDatabase, selectedDeploy, runVars, mergeVars, depVars, pipeVars,
                 watchVars, emitVars, relVars>>

auth(plugin) ==
  /\ Configuring
  /\ SelectedCount < MaxSelected
  /\ selectedAuth' = SortByPriority(Append(selectedAuth, Entry(plugin, selectedAuth)))
  /\ UNCHANGED <<selectedParser, selectedGenerators, selectedAdapter,
                 selectedDatabase, selectedDeploy, runVars, mergeVars, depVars, pipeVars,
                 watchVars, emitVars, relVars>>

database(plugin) ==
  /\ Configuring
  /\ selectedDatabase' = plugin.name
  /\ UNCHANGED <<selectedParser, selectedGenerators, selectedAdapter,
                 selectedAuth, selectedDeploy, runVars, mergeVars, depVars, pipeVars,
                 watchVars, emitVars, relVars>>

deploy(plugin) ==
  /\ Configuring
  /\ SelectedCount < MaxSelected
  /\ selectedDeploy' = SortByPriority(Append(selectedDeploy, Entry(plugin, selectedDeploy)))
  /\ UNCHANGED <<selectedParser, selectedGenerators, selectedAdapter,
                 selectedAuth, selectedDatabase, runVars, mergeVars, depVars, pipeVars,
                 watchVars, emitVars, relVars>>

reset ==
  /\ Configuring
  /\ selectedParser' = Undefined
  /\ selectedGenerators' = <<>>
  /\ selectedAdapter' = Undefined
  /\ selectedAuth' = <<>>
  /\ selectedDatabase' = Undefined
  /\ selectedDeploy' = <<>>
  /\ UNCHANGED <<runVars, mergeVars, depVars, pipeVars, watchVars, emitVars, relVars>>

(* ---------------------------------------------------------------------- *)
(* OpenGenerator.validate                                                  *)
(* ---------------------------------------------------------------------- *)
\* messages are kept as their words
NoParserSelected == <<"No", "parser", "selected">>
NoGeneratorsSelected == <<"No", "generators", "selected">>
NoAdapterSelected ==
  <<"No", "adapter", "selected", "-", "generated", "code", "may", "not", "be",
    "framework-specific">>
NoAuthSelected ==
  <<"No", "auth", "plugins", "selected", "-", "API", "will", "be", "unauthenticated">>
NoDatabaseSelected ==
  <<"No", "database", "plugin", "selected", "-", "no", "database", "layer", "will",
    "be", "generated">>

\* errors.push(message) when the condition holds
PushIf(cond, message) == IF cond THEN <<message>> ELSE <<>>

\* mutant: a builder without adapter is invalid
ValidateErrors_AdapterRequired ==
  PushIf(selectedParser = Undefined, NoParserSelected)
  \o PushIf(selectedGenerators = <<>>, NoGeneratorsSelected)
  \o PushIf(selectedAdapter = Undefined, NoAdapterSelected)

\* the errors of validate()
ValidateErrors ==
  PushIf(selectedParser = Undefined, NoParserSelected)
  \o PushIf(selectedGenerators = <<>>, NoGeneratorsSelected)

\* the warnings of validate()
ValidateWarnings ==
  PushIf(selectedAdapter = Undefined, NoAdapterSelected)
  \o PushIf(selectedAuth = <<>>, NoAuthSelected)
  \o PushIf(selectedDatabase = Undefined, NoDatabaseSelected)

\* validate(): { valid: errors.length === 0, errors, warnings }
ValidationResult ==
  [called |-> TRUE, valid |-> Len(ValidateErrors) = 0,
   errors |-> ValidateErrors, warnings |-> ValidateWarnings]

\* a call of validate() on the builder, between runs
validate ==
  /\ pc = "idle" /\ pPhase = "off"
  /\ validation = NotValidated
  /\ validation' = ValidationResult
  /\ UNCHANGED <<pConfig, pOptions, pStage, pPhase, pSchema, pCode, pWarnings,
                 pError, events, builderVars, runVars, mergeVars, depVars,
                 watchVars, emitVars, relVars>>

\* the caller has taken the result
validateReturn ==
  /\ validation # NotValidated
  /\ validation' = NotValidated
  /\ UNCHANGED <<pConfig, pOptions, pStage, pPhase, pSchema, pCode, pWarnings,
                 pError, events, builderVars, runVars, mergeVars, depVars,
                 watchVars, emitVars, relVars>>

(* ---------------------------------------------------------------------- *)
(* OpenGenerator.generate: one step for each awaited call                  *)
(* ---------------------------------------------------------------------- *)
Call(kind, name) == [kind |-> kind, name |-> name]

\* mutant: the auth plugins run before the adapter
StageAfter_AuthBeforeAdapter(stage) ==
  CASE stage = "parse"      -> "generators"
    [] stage = "generators" -> "auth"
    [] stage = "auth"       -> "adapter"
    [] stage = "adapter"    -> "database"
    [] stage = "database"   -> "deploy"
    [] stage = "deploy"     -> "collect"
    [] stage = "collect"    -> "write"
    [] stage = "write"      -> "done"

\* the statements of generate() in the order they are written
StageAfter(stage) ==
  CASE stage = "parse"      -> "generators"
    [] stage = "generators" -> "adapter"
    [] stage = "adapter"    -> "auth"
    [] stage = "auth"       -> "database"
    [] stage = "database"   -> "deploy"
    [] stage = "deploy"     -> "collect"
    [] stage = "collect"    -> "write"
    [] stage = "write"      -> "done"

\* code = mergeGeneratedCode(code, generated)
Merged(acc, generated) == CodeOf(mergeGeneratedCode(acc, generated, Undefined))

\* mutant: the adapter's result is merged into the accumulator
Adapted_MergedIn(name, acc) == Merged(acc, AdapterAdapt(name, acc))

\* code = await this.selectedAdapter.adapt(code, options)
Adapted(name, acc) == AdapterAdapt(name, acc)

\* mutant: a rejected plugin call is caught and the run goes on
Propagates_Caught(name) == FALSE

\* generate() awaits every plugin call outside any try block: a call that
\* throws or rejects ends generate() with that error
Propagates(name) == PluginThrows(name)

\* the run ends rejected with the error of the plugin just called
Rejected(kind, name) ==
  /\ pc' = "threw"
  /\ error' = PluginError(name)
  /\ calls' = Append(calls, Call(kind, name))

\* mutant: only the dependencies of the accumulator are merged
collectDependencies_ExistingOnly(existing) == mergeDependencies(existing, <<>>)

collectDependencies(existing) ==
  LET listDeps(list, withPeer) ==
        LET RECURSIVE from(_)
            from(i) == IF i > Len(list) THEN <<>>
                       ELSE GetDependencies(list[i].name)
                            \o (IF withPeer THEN GetPeerDependencies(list[i].name) ELSE <<>>)
                            \o from(i + 1)
        IN from(1)
      one(name) == IF name = Undefined THEN <<>>
                   ELSE GetDependencies(name) \o GetPeerDependencies(name)
      deps == existing
              \o one(selectedAdapter)
              \o listDeps(selectedGenerators, TRUE)
              \o listDeps(selectedAuth, TRUE)
              \o one(selectedDatabase)
              \o listDeps(selectedDeploy, FALSE)
  IN mergeDependencies(deps, <<>>)

generate ==
  /\ pc = "idle"
  /\ validation = NotValidated
  /\ pc' = "parse"
  /\ UNCHANGED <<idx, schema, code, written, calls, adaptInput, deployInput, error, collectInput,
                 builderVars, mergeVars, depVars, pipeVars,
                 watchVars, emitVars, relVars>>

\* const schema = await this.parse(options.schema); let code = {files: [], dependencies: []}
parseStep ==
  /\ pc = "parse"
  /\ IF selectedParser = Undefined
     THEN /\ pc' = "threw"
          /\ error' = NoParserError
          /\ UNCHANGED <<schema, calls, code>>
     ELSE IF Propagates(selectedParser)
     THEN /\ Rejected("parser", selectedParser)
          /\ UNCHANGED <<schema, code>>
     ELSE /\ pc' = StageAfter("parse")
          /\ schema' = "ir"
          /\ calls' = Append(calls, Call("parser", selectedParser))
          /\ code' = EmptyCode
          /\ UNCHANGED error
  /\ idx' = 1
  /\ UNCHANGED <<written, adaptInput, deployInput, collectInput, builderVars, mergeVars, depVars, pipeVars,
                 watchVars, emitVars, relVars>>

\* for (const gen of this.selectedGenerators)
generatorStep ==
  /\ pc = "generators"
  /\ IF idx <= Len(selectedGenerators) /\ Propagates(selectedGenerators[idx].name)
     THEN /\ Rejected("generator", selectedGenerators[idx].name)
          /\ UNCHANGED <<code, idx>>
     ELSE IF idx <= Len(selectedGenerators)
     THEN /\ code' = Merged(code, GeneratorGenerate(selectedGenerators[idx].name, schema))
          /\ calls' = Append(calls, Call("generator", selectedGenerators[idx].name))
          /\ idx' = idx + 1
          /\ pc' = pc
          /\ UNCHANGED error
     ELSE /\ pc' = StageAfter("generators")
          /\ idx' = 1
          /\ UNCHANGED <<code, calls, error>>
  /\ UNCHANGED <<schema, written, adaptInput, deployInput, collectInput, builderVars, mergeVars, depVars, pipeVars,
                 watchVars, emitVars, relVars>>

\* if (this.selectedAdapter)
adapterStep ==
  /\ pc = "adapter"
  /\ IF selectedAdapter # Undefined /\ Propagates(selectedAdapter)
     THEN /\ Rejected("adapter", selectedAdapter)
          /\ adaptInput' = code
          /\ UNCHANGED code
     ELSE /\ IF selectedAdapter # Undefined
             THEN /\ adaptInput' = code
                  /\ code' = Adapted(selectedAdapter, code)
                  /\ calls' = Append(calls, Call("adapter", selectedAdapter))
             ELSE UNCHANGED <<adaptInput, code, calls>>
          /\ pc' = StageAfter("adapter")
          /\ UNCHANGED error
  /\ idx' = 1
  /\ UNCHANGED <<schema, written, deployInput, collectInput,
                 builderVars, mergeVars, depVars, pipeVars,
                 watchVars, emitVars, relVars>>

\* for (const auth of this.selectedAuth)
authStep ==
  /\ pc = "auth"
  /\ IF idx <= Len(selectedAuth)
     THEN /\ code' = Merged(code, AuthGenerate(selectedAuth[idx].name, schema))
          /\ calls' = Append(calls, Call("auth", selectedAuth[idx].name))
          /\ idx' = idx + 1
          /\ pc' = pc
     ELSE /\ pc' = StageAfter("auth")
          /\ idx' = 1
          /\ UNCHANGED <<code, calls>>
  /\ UNCHANGED <<schema, written, adaptInput, deployInput, error, collectInput,
                 builderVars, mergeVars, depVars, pipeVars,
                 watchVars, emitVars, relVars>>

\* if (this.selectedDatabase)
databaseStep ==
  /\ pc = "database"
  /\ IF selectedDatabase # Undefined
     THEN /\ code' = Merged(code, DatabaseGenerate(selectedDatabase, schema))
          /\ calls' = Append(calls, Call("database", selectedDatabase))
     ELSE UNCHANGED <<code, calls>>
  /\ pc' = StageAfter("database")
  /\ idx' = 1
  /\ UNCHANGED <<schema, written, adaptInput, deployInput, error, collectInput,
                 builderVars, mergeVars, depVars, pipeVars,
                 watchVars, emitVars, relVars>>

\* mutant: a deploy plugin is given the files only
DeployArgument_FilesOnly(acc) == [acc EXCEPT !.dependencies = <<>>]

\* dep.generate(code, options): the accumulator as it stands
DeployArgument(acc) == acc

\* for (const dep of this.selectedDeploy)
deployStep ==
  /\ pc = "deploy"
  /\ IF idx <= Len(selectedDeploy) /\ Propagates(selectedDeploy[idx].name)
     THEN /\ Rejected("deploy", selectedDeploy[idx].name)
          /\ deployInput' = Append(deployInput, DeployArgument(code))
          /\ UNCHANGED <<code, idx>>
     ELSE IF idx <= Len(selectedDeploy)
     THEN /\ code' = Merged(code, DeployGenerate(selectedDeploy[idx].name,
                                                 DeployArgument(code)))
          /\ deployInput' = Append(deployInput, DeployArgument(code))
          /\ calls' = Append(calls, Call("deploy", selectedDeploy[idx].name))
          /\ idx' = idx + 1
          /\ pc' = pc
          /\ UNCHANGED error
     ELSE /\ pc' = StageAfter("deploy")
          /\ idx' = 1
          /\ UNCHANGED <<code, calls, error, deployInput>>
  /\ UNCHANGED <<schema, written, adaptInput, collectInput,
                 builderVars, mergeVars, depVars, pipeVars,
                 watchVars, emitVars, relVars>>

\* code.dependencies = this.collectDependencies(code.dependencies)
collectStep ==
  /\ pc = "collect"
  /\ collectInput' = code.dependencies
  /\ code' = [code EXCEPT !.dependencies = collectDependencies(code.dependencies)]
  /\ calls' = Append(calls, Call("collect", "dependencies"))
  /\ pc' = StageAfter("collect")
  /\ UNCHANGED <<idx, schema, written, adaptInput, deployInput, error, builderVars, mergeVars, depVars, pipeVars,
                 watchVars, emitVars, relVars>>

\* if (options.output && options.write !== false && !options.dryRun); the
\* options are read here only, so the run's options are chosen here
writeStepWith(write, dryRun) ==
  /\ pc = "write"
  /\ IF write # "false" /\ dryRun # "true"
     THEN written' = code.files
     ELSE UNCHANGED written
  /\ pc' = StageAfter("write")
  /\ UNCHANGED <<idx, schema, code, calls, adaptInput, deployInput, error, collectInput,
                 builderVars, mergeVars, depVars, pipeVars,
                 watchVars, emitVars, relVars>>

writeStep ==
  /\ pPhase = "off"
  /\ \E write \in {Undefined, "false"}, dryRun \in {Undefined, "true"} :
       writeStepWith(write, dryRun)

\* the promise of generate() settles; the run's locals are gone
settle ==
  /\ pc \in {"done", "threw"}
  /\ pPhase = "off"
  /\ pc' = "idle" /\ idx' = 1 /\ schema' = Undefined /\ code' = EmptyCode
  /\ written' = <<>> /\ calls' = <<>> /\ adaptInput' = EmptyCode /\ deployInput' = <<>>
  /\ error' = NoError /\ collectInput' = <<>>
  /\ UNCHANGED <<builderVars, mergeVars, depVars, pipeVars,
                 watchVars, emitVars, relVars>>

Init ==
  /\ BuilderNew /\ RunIdle /\ MergeIdle /\ DepIdle /\ PipelineOff
  /\ WatcherNew /\ EmitIdle /\ RelIdle

Next ==
  \/ \E plugin \in ParserPlugins : parser(plugin)
  \/ \E plugin \in GeneratorPlugins : generator(plugin)
  \/ \E plugin \in AdapterPlugins : adapter(plugin)
  \/ \E plugin \in AuthPlugins : auth(plugin)
  \/ \E plugin \in DatabasePlugins : database(plugin)
  \/ \E plugin \in DeployPlugins : deploy(plugin)
  \/ reset
  \/ validate
  \/ validateReturn
  \/ generate
  \/ parseStep
  \/ generatorStep
  \/ adapterStep
  \/ authStep
  \/ databaseStep
  \/ deployStep
  \/ collectStep
  \/ writeStep
  \/ settle

Spec == Init /\ [][Next]_vars

(* ---------------------------------------------------------------------- *)
(* Pipeline: config, options and the builders it is constructed on         *)
(* ---------------------------------------------------------------------- *)
\* SchemaTransform functions; rejecting is one that throws
SchemaTransformNames == {"addTimestamps", "addSoftDelete", "rejecting"}

TransformThrows(t) == t = "rejecting"

TransformError(t) == [thrownBy |-> t, message |-> <<t, "failed">>]

\* the schema a transform returns: the one it was given, with the transform
\* noted as applied to it
ApplySchemaTransform(t, s) == [s EXCEPT !.applied = Append(@, t)]

\* CodeTransform functions: one that adds a README.md, and
\* codeTransforms.filterByExtension(['.ts'])
CodeTransformNames == {"addReadme", "filterByExtension"}

\* the paths that end in .ts
TsPaths == {"common.ts", "high.ts", "low.ts", "plain.ts", "zero.ts", "server.ts",
            "auth.ts", "db.ts"}

ApplyCodeTransform(t, c) ==
  CASE t = "addReadme" ->
         [c EXCEPT !.files = Append(@, File("README.md", "readme"))]
    [] t = "filterByExtension" ->
         [c EXCEPT !.files = SelectSeq(@, LAMBDA f : f.path \in TsPaths)]

\* FileFilter functions: (file) => file.path !== 'common.ts' and
\* (file) => file.path.endsWith('.ts')
FileFilterNames == {"noCommon", "onlyTs"}

FilterAccepts(filter, file) ==
  CASE filter = "noCommon" -> file.path # "common.ts"
    [] filter = "onlyTs"   -> file.path \in TsPaths

AllHooks(behaviour) ==
  [defined |-> TRUE, onStageStart |-> behaviour, onStageComplete |-> behaviour,
   onStageError |-> behaviour]

\* config.hooks: missing, three hooks that return, three hooks that throw,
\* or a throwing onStageStart with a returning onStageError only
HookConfigs ==
  {NoHooks, AllHooks("returns"), AllHooks("throws"),
   [defined |-> TRUE, onStageStart |-> "throws", onStageComplete |-> Undefined,
    onStageError |-> "returns"]}

PipelineConfigs ==
  {c \in [schemaTransforms : SeqsUpTo(SchemaTransformNames, MaxPipelineFns),
          codeTransforms : SeqsUpTo(CodeTransformNames, MaxPipelineFns),
          fileFilters : SeqsUpTo(FileFilterNames, MaxPipelineFns),
          hooks : HookConfigs] :
     Len(c.schemaTransforms) + Len(c.codeTransforms) + Len(c.fileFilters)
       <= MaxPipelineFns}

\* GenerateOptions: write?: boolean, dryRun?: boolean
RunOptions == [write : {Undefined, "false"}, dryRun : {Undefined, "true"}]

PluginNamed(plugins, name) == CHOOSE plugin \in plugins : plugin.name = name

\* the list after .generator(), .auth() or .deploy() was called with each of
\* the named plugins in turn
RECURSIVE RegisterAll(_, _, _)
RegisterAll(list, plugins, names) ==
  IF names = <<>> THEN list
  ELSE RegisterAll(SortByPriority(Append(list, Entry(PluginNamed(plugins, Head(names)), list))),
                   plugins, Tail(names))

Builder(p, gens, a, auths, d, deps) ==
  [parser |-> p, generators |-> RegisterAll(<<>>, GeneratorPlugins, gens),
   adapter |-> a, auth |-> RegisterAll(<<>>, AuthPlugins, auths),
   database |-> d, deploy |-> RegisterAll(<<>>, DeployPlugins, deps)]

\* the builders a pipeline is constructed on: nothing selected; a parser
\* only; generators without parser; a throwing parser; the parser and the
\* mock generator; a full stack; a throwing generator
PipelineBuilders ==
  { Builder(Undefined, <<>>, Undefined, <<>>, Undefined, <<>>),
    Builder("mock-parser", <<>>, Undefined, <<>>, Undefined, <<>>),
    Builder(Undefined, <<"plain">>, Undefined, <<>>, Undefined, <<>>),
    Builder("bad-parser", <<"plain">>, Undefined, <<>>, Undefined, <<>>),
    Builder("mock-parser", <<"plain">>, Undefined, <<>>, Undefined, <<>>),
    Builder("mock-parser", <<"low", "high">>, "express", <<>>, "prisma", <<"docker">>),
    Builder("mock-parser", <<"high", "boom">>, Undefined, <<"jwt">>, Undefined, <<>>) }

\* new Pipeline(generator, config), and the options run() will be given
PipelineInit ==
  /\ \E b \in PipelineBuilders :
       /\ selectedParser = b.parser /\ selectedGenerators = b.generators
       /\ selectedAdapter = b.adapter /\ selectedAuth = b.auth
       /\ selectedDatabase = b.database /\ selectedDeploy = b.deploy
  /\ pConfig \in PipelineConfigs
  /\ pOptions \in RunOptions
  /\ pPhase = "ready"
  /\ validation = NotValidated
  /\ PipelineRunIdle
  /\ RunIdle /\ MergeIdle /\ DepIdle
  /\ WatcherNew /\ EmitIdle /\ RelIdle

(* ---------------------------------------------------------------------- *)
(* Pipeline.run, runStage and emitEvent                                    *)
(* ---------------------------------------------------------------------- *)
\* if (options.write !== false && !options.dryRun)
WriteWanted(options) == options.write # "false" /\ options.dryRun # "true"

\* mutant: code is generated before the schema transforms run
StageAfterStage_GenerateFirst(stage, options) ==
  CASE stage = "parse"       -> "validate"
    [] stage = "validate"    -> "generate"
    [] stage = "generate"    -> "transform"
    [] stage = "transform"   -> "postProcess"
    [] stage = "postProcess" -> IF WriteWanted(options) THEN "write" ELSE "none"
    [] stage = "write"       -> "none"

\* the runStage calls of run() in the order they are written; none when the
\* result is returned next
StageAfterStage(stage, options) ==
  CASE stage = "parse"       -> "validate"
    [] stage = "validate"    -> "transform"
    [] stage = "transform"   -> "generate"
    [] stage = "generate"    -> "postProcess"
    [] stage = "postProcess" -> IF WriteWanted(options) THEN "write" ELSE "none"
    [] stage = "write"       -> "none"

\* the hook emitEvent calls for an event of the status
HookFor(status) ==
  CASE status = "start"    -> pConfig.hooks.onStageStart
    [] status = "complete" -> pConfig.hooks.onStageComplete
    [] status = "error"    -> pConfig.hooks.onStageError

\* what the hook call does: none when there is no hooks object or no such
\* hook, else returns or throws
HookOutcome(status) ==
  IF ~pConfig.hooks.defined \/ HookFor(status) = Undefined THEN "none"
  ELSE HookFor(status)

\* the error a hook throws
HookError == [thrownBy |-> "hook", message |-> <<"hook", "failed">>]

\* mutant: emitEvent without its try/catch
HookEscapes_NoCatch(outcome) == outcome = "throws"

\* emitEvent catches what the hook throws and logs it with console.warn
HookEscapes(outcome) == FALSE

Event(stage, status) == [stage |-> stage, status |-> status, hook |-> HookOutcome(status)]

\* run(options): this.warnings = [], then runStage('parse', ...)
run ==
  /\ pPhase = "ready"
  /\ pWarnings' = <<>>
  /\ pStage' = "parse"
  /\ pPhase' = "start"
  /\ UNCHANGED <<validation, pConfig, pOptions, pSchema, pCode, pError, events,
                 builderVars, runVars, mergeVars, depVars,
                 watchVars, emitVars, relVars>>

\* runStage: await this.emitEvent({stage, status: 'start'}), outside the try
emitStart ==
  /\ pPhase = "start"
  /\ events' = Append(events, Event(pStage, "start"))
  /\ IF HookEscapes(HookOutcome("start"))
     THEN pPhase' = "rejected" /\ pError' = HookError
     ELSE pPhase' = "run" /\ UNCHANGED pError
  /\ UNCHANGED <<validation, pConfig, pOptions, pStage, pSchema, pCode, pWarnings,
                 builderVars, runVars, mergeVars, depVars,
                 watchVars, emitVars, relVars>>

\* runStage: await this.emitEvent({stage, status: 'complete'}) inside the
\* try, return result; run() goes on to the next runStage or returns
emitComplete ==
  /\ pPhase = "complete"
  /\ events' = Append(events, Event(pStage, "complete"))
  /\ IF HookEscapes(HookOutcome("complete"))
     THEN pPhase' = "error" /\ pError' = HookError /\ UNCHANGED pStage
     ELSE /\ UNCHANGED pError
          /\ IF StageAfterStage(pStage, pOptions) = "none"
             THEN pPhase' = "resolved" /\ UNCHANGED pStage
             ELSE pPhase' = "start" /\ pStage' = StageAfterStage(pStage, pOptions)
  /\ UNCHANGED <<validation, pConfig, pOptions, pSchema, pCode, pWarnings,
                 builderVars, runVars, mergeVars, depVars,
                 watchVars, emitVars, relVars>>

\* runStage: catch (error) { await this.emitEvent({stage, status: 'error'});
\* throw error }
emitError ==
  /\ pPhase = "error"
  /\ events' = Append(events, Event(pStage, "error"))
  /\ pError' = IF HookEscapes(HookOutcome("error")) THEN HookError ELSE pError
  /\ pPhase' = "rejected"
  /\ UNCHANGED <<validation, pConfig, pOptions, pStage, pSchema, pCode, pWarnings,
                 builderVars, runVars, mergeVars, depVars,
                 watchVars, emitVars, relVars>>

\* the stage function is being awaited
InStage(stage) == pPhase = "run" /\ pStage = stage

\* mutant: what the stage function throws is dropped and the stage completes
StageThrew_Swallowed(err) == pPhase' = "complete" /\ UNCHANGED pError

\* the stage function threw: runStage goes to its catch block
StageThrew(err) == pPhase' = "error" /\ pError' = err

\* stage 1: async () => this.generator.parse(options.schema)
parseStage ==
  /\ InStage("parse")
  /\ IF selectedParser = Undefined
     THEN StageThrew(NoParserError) /\ UNCHANGED <<pSchema, calls>>
     ELSE /\ calls' = Append(calls, Call("parser", selectedParser))
          /\ IF PluginThrows(selectedParser)
             THEN StageThrew(PluginError(selectedParser)) /\ UNCHANGED pSchema
             ELSE /\ pSchema' = [ir |-> "ir", applied |-> <<>>]
                  /\ pPhase' = "complete"
                  /\ UNCHANGED pError
  /\ UNCHANGED <<pc, idx, schema, code, written, adaptInput, deployInput, error,
                 collectInput, validation, pConfig, pOptions, pStage, pCode, pWarnings,
                 events, builderVars, mergeVars, depVars,
                 watchVars, emitVars, relVars>>

\* errors.join(', ')
RECURSIVE JoinErrors(_)
JoinErrors(errors) ==
  IF errors = <<>> THEN <<>>
  ELSE IF Len(errors) = 1 THEN errors[1]
  ELSE errors[1] \o <<",">> \o JoinErrors(Tail(errors))

\* new Error(`Validation failed: ${validation.errors.join(', ')}`)
ValidationFailed(errors) ==
  [thrownBy |-> "Pipeline.validate",
   message |-> <<"Validation", "failed:">> \o JoinErrors(errors)]

\* if (!validation.valid) throw
ValidateStageThrows(v) == ~v.valid

\* stage 2: validate() is called, its errors thrown or its warnings kept
validateStage ==
  /\ InStage("validate")
  /\ IF ValidateStageThrows(ValidationResult)
     THEN StageThrew(ValidationFailed(ValidationResult.errors)) /\ UNCHANGED pWarnings
     ELSE /\ pWarnings' = pWarnings \o ValidationResult.warnings
          /\ pPhase' = "complete"
          /\ UNCHANGED pError
  /\ UNCHANGED <<validation, pConfig, pOptions, pStage, pSchema, pCode, events,
                 builderVars, runVars, mergeVars, depVars,
                 watchVars, emitVars, relVars>>

\* mutant: every transform is given the parsed schema
ApplySchemaTransforms_Unchained(s, list, i) ==
  IF list = <<>> THEN [threw |-> FALSE, value |-> s, by |-> Undefined]
  ELSE IF \E j \in 1..Len(list) : TransformThrows(list[j])
  THEN [threw |-> TRUE, value |-> s, by |-> list[CHOOSE j \in 1..Len(list) :
                                                   TransformThrows(list[j])]]
  ELSE [threw |-> FALSE, value |-> ApplySchemaTransform(list[Len(list)], s),
        by |-> Undefined]

\* let transformed = schema; for (const transform of schemaTransforms)
\* transformed = await transform(transformed), from the i-th transform on
RECURSIVE ApplySchemaTransforms(_, _, _)
ApplySchemaTransforms(s, list, i) ==
  IF i > Len(list) THEN [threw |-> FALSE, value |-> s, by |-> Undefined]
  ELSE IF TransformThrows(list[i]) THEN [threw |-> TRUE, value |-> s, by |-> list[i]]
  ELSE ApplySchemaTransforms(ApplySchemaTransform(list[i], s), list, i + 1)

\* stage 3: schema = the value the last schema transform returned
transformStage ==
  /\ InStage("transform")
  /\ LET r == ApplySchemaTransforms(pSchema, pConfig.schemaTransforms, 1)
     IN IF r.threw
        THEN StageThrew(TransformError(r.by)) /\ UNCHANGED pSchema
        ELSE pSchema' = r.value /\ pPhase' = "complete" /\ UNCHANGED pError
  /\ UNCHANGED <<validation, pConfig, pOptions, pStage, pCode, pWarnings, events,
                 builderVars, runVars, mergeVars, depVars,
                 watchVars, emitVars, relVars>>

\* stage 4: async () => this.generator.generate({...options, write: false}),
\* the call
generateStage ==
  /\ InStage("generate")
  /\ generate

\* the write statement of generate(), run with write: false
generateStageWrite ==
  /\ InStage("generate")
  /\ writeStepWith("false", pOptions.dryRun)

\* stage 4: generate() has returned the code or thrown
generateStageSettle ==
  /\ InStage("generate")
  /\ pc \in {"done", "threw"}
  /\ IF pc = "done"
     THEN pCode' = code /\ pPhase' = "complete" /\ UNCHANGED pError
     ELSE StageThrew(error) /\ UNCHANGED pCode
  /\ UNCHANGED <<validation, pConfig, pOptions, pStage, pSchema, pWarnings, events,
                 builderVars, runVars, mergeVars, depVars,
                 watchVars, emitVars, relVars>>

\* let processed = code; for (const transform of codeTransforms)
\* processed = await transform(processed), from the i-th transform on
RECURSIVE ApplyCodeTransforms(_, _, _)
ApplyCodeTransforms(c, list, i) ==
  IF i > Len(list) THEN c
  ELSE ApplyCodeTransforms(ApplyCodeTransform(list[i], c), list, i + 1)

\* mutant: a file is kept when some filter accepts it
KeepFiles_SomeFilter(files, filters) ==
  SelectSeq(files, LAMBDA file : \E i \in 1..Len(filters) : FilterAccepts(filters[i], file))

\* processed.files.filter((file) => fileFilters.every((filter) => filter(file)))
KeepFiles(files, filters) ==
  SelectSeq(files, LAMBDA file : \A i \in 1..Len(filters) : FilterAccepts(filters[i], file))

\* the function of the postProcess stage
PostProcessed(c, config) ==
  LET processed == ApplyCodeTransforms(c, config.codeTransforms, 1)
  IN IF Len(config.fileFilters) > 0
     THEN [processed EXCEPT !.files = KeepFiles(processed.files, config.fileFilters)]
     ELSE processed

\* stage 5: code = the transformed and filtered code
postProcessStage ==
  /\ InStage("postProcess")
  /\ pCode' = PostProcessed(pCode, pConfig)
  /\ pPhase' = "complete"
  /\ UNCHANGED <<validation, pConfig, pOptions, pStage, pSchema, pWarnings, pError,
                 events, builderVars, runVars, mergeVars, depVars,
                 watchVars, emitVars, relVars>>

\* stage 6: await writeGeneratedCode(code, options.output)
writeStage ==
  /\ InStage("write")
  /\ written' = pCode.files
  /\ pPhase' = "complete"
  /\ UNCHANGED <<pc, idx, schema, code, calls, adaptInput, deployInput, error, collectInput,
                 validation, pConfig, pOptions, pStage, pSchema, pCode, pWarnings,
                 pError, events, builderVars, mergeVars, depVars,
                 watchVars, emitVars, relVars>>

\* the PipelineResult of a run that returned
PipelineResult == [code |-> pCode, schema |-> pSchema, warnings |-> pWarnings]

\* the promise of run() has settled; the pipeline can be run again
pipelineSettle ==
  /\ pPhase \in {"resolved", "rejected"}
  /\ pPhase' = "ready"
  /\ pStage' = "none" /\ pSchema' = NoSchema /\ pCode' = EmptyCode
  /\ pWarnings' = <<>> /\ pError' = NoError /\ events' = <<>>
  /\ pc' = "idle" /\ idx' = 1 /\ schema' = Undefined /\ code' = EmptyCode
  /\ written' = <<>> /\ calls' = <<>> /\ adaptInput' = EmptyCode /\ deployInput' = <<>>
  /\ error' = NoError /\ collectInput' = <<>>
  /\ UNCHANGED <<validation, pConfig, pOptions, builderVars, mergeVars, depVars,
                 watchVars, emitVars, relVars>>

PipelineNext ==
  \/ run
  \/ emitStart
  \/ parseStage
  \/ validateStage
  \/ transformStage
  \/ generateStage
  \/ parseStep
  \/ generatorStep
  \/ adapterStep
  \/ authStep
  \/ databaseStep
  \/ deployStep
  \/ collectStep
  \/ generateStageWrite
  \/ generateStageSettle
  \/ postProcessStage
  \/ writeStage
  \/ emitComplete
  \/ emitError
  \/ pipelineSettle

SpecPipeline == PipelineInit /\ [][PipelineNext]_vars

(* ---------------------------------------------------------------------- *)
(* Watcher: start, stop, the events of chokidar, the debounce timer        *)
(* ---------------------------------------------------------------------- *)
\* debounce: 300, the default of the constructor (milliseconds)
Debounce == 300

\* the events of chokidar that start() subscribes to; error and ready are
\* handled as unlink is
FsEvents == {"change", "add", "unlink"}


\* the handlers given to on(): the second one throws
Handlers == {"logger", "thrower"}

otherVars == <<mergeVars, depVars, builderVars, runVars, pipeVars, emitVars, relVars>>

\* the Timeout object of a new call of setTimeout: one that is not pending
\* and is not the one this.debounceTimer holds
NewTimer(ts) ==
  CHOOSE id \in 1..(Cardinality(ts) + 2) :
    /\ \A t \in ts : t.id # id
    /\ debounceTimer # <<id>>

\* mutant: the pending timer is left to fire
ClearTimeout_Never(ts, handle) == ts

\* if (this.debounceTimer) clearTimeout(this.debounceTimer); a timer that has
\* fired is not pending, and clearing it does nothing
ClearTimeout(ts, handle) == {t \in ts : handle # <<t.id>>}

\* setTimeout(() => void this.regenerate(), this.watcherOptions.debounce)
SetTimeout(ts, id) == ts \cup {[id |-> id, due |-> now + Debounce]}

\* debouncedRegenerate() when the timers ts are pending: the timers that
\* are pending after it, and the new value of this.debounceTimer
debouncedRegenerate(ts) ==
  [timers |-> SetTimeout(ClearTimeout(ts, debounceTimer), NewTimer(ts)),
   debounceTimer |-> <<NewTimer(ts)>>]

\* for (const handler of this.eventHandlers) try { handler(event, path, error) }
\* catch: what handleEvent(event) gives the handlers, in their order
Deliver(event) ==
  [i \in 1..Len(eventHandlers) |-> [handler |-> eventHandlers[i], event |-> event]]

\* mutant: regenerate() never finds a generation in progress
Busy_Never == FALSE

\* if (this.isGenerating)
Busy == isGenerating

\* mutant: a regeneration asked for during a generation is dropped
WhenBusy_Dropped(ts) == [timers |-> ts, debounceTimer |-> debounceTimer]

\* if (this.isGenerating) { this.debouncedRegenerate(); return }
WhenBusy(ts) == debouncedRegenerate(ts)

\* mutant: the guard is not released
AfterFinally_Kept == isGenerating

\* finally { this.isGenerating = false }
AfterFinally == FALSE

\* regenerate() up to its await, when the timers ts are pending; byTimer
\* tells whether the debounce timer called it (start() calls it as well)
regenerate(ts, byTimer) ==
  IF Busy
  THEN /\ timers' = WhenBusy(ts).timers
       /\ debounceTimer' = WhenBusy(ts).debounceTimer
       /\ owed' = TRUE
       /\ requests' = IF owed THEN requests ELSE requests + 1
       /\ UNCHANGED <<isGenerating, pendingGenerations, generateCalls, debounced,
                      missed, followUps, afterStop>>
  ELSE /\ isGenerating' = TRUE
       /\ pendingGenerations' = pendingGenerations + 1
       /\ generateCalls' = generateCalls + 1
       /\ timers' = ts
       /\ UNCHANGED <<debounceTimer, requests>>
       /\ IF byTimer
          THEN /\ owed' = FALSE
               /\ debounced' = debounced + 1
               /\ missed' = FALSE
               /\ followUps' = IF missed THEN followUps + 1 ELSE followUps
               /\ afterStop' = IF stopped THEN afterStop + 1 ELSE afterStop
          ELSE UNCHANGED <<owed, debounced, missed, followUps, afterStop>>

\* start(): this.fsWatcher = chokidarWatch(...), the five handlers, and
\* await this.regenerate(); nothing is read of an earlier call of start()
start ==
  /\ inputs < MaxInputs
  /\ starts' = starts + 1
  /\ inputs' = inputs + 1
  /\ fsWatcher' = <<starts + 1>>
  /\ openWatchers' = openWatchers \cup {starts + 1}
  /\ regenerate(timers, FALSE)
  /\ stopped' = FALSE
  /\ UNCHANGED <<eventHandlers, lastGeneratedCode, now, delivered, closing,
                 stops, lastEventAt, missedRuns, failures, otherVars>>

\* stop() up to its await: clearTimeout, and fsWatcher.close(), which
\* removes the listeners of that chokidar watcher before it returns; stop()
\* is not called again while it awaits close()
stop ==
  /\ inputs < MaxInputs
  /\ ~closing
  /\ stops' = stops + 1
  /\ inputs' = inputs + 1
  /\ stopped' = TRUE
  /\ timers' = ClearTimeout(timers, debounceTimer)
  /\ IF fsWatcher # <<>>
     THEN openWatchers' = openWatchers \ {fsWatcher[1]} /\ closing' = TRUE
     ELSE UNCHANGED <<openWatchers, closing>>
  /\ UNCHANGED <<watcherFields, pendingGenerations, generateCalls, now, delivered,
                 starts, lastEventAt, owed, requests, debounced,
                 missed, missedRuns, followUps, afterStop, failures, otherVars>>

\* stop() after await this.fsWatcher.close(): this.fsWatcher = undefined
stopReturns ==
  /\ closing
  /\ closing' = FALSE
  /\ fsWatcher' = <<>>
  /\ UNCHANGED <<debounceTimer, isGenerating, eventHandlers, lastGeneratedCode,
                 openWatchers, timers, pendingGenerations, generateCalls, now,
                 delivered, starts, inputs, watcherHistory, otherVars>>

\* on(handler)
on(handler) ==
  /\ inputs < MaxInputs
  /\ inputs' = inputs + 1
  /\ eventHandlers' = Append(eventHandlers, handler)
  /\ UNCHANGED <<fsWatcher, debounceTimer, isGenerating, lastGeneratedCode,
                 openWatchers, timers, pendingGenerations, generateCalls, now,
                 delivered, closing, starts, watcherHistory, otherVars>>

\* off(handler): indexOf and splice
off(handler) ==
  /\ inputs < MaxInputs
  /\ inputs' = inputs + 1
  /\ \E i \in 1..Len(eventHandlers) :
       /\ eventHandlers[i] = handler
       /\ \A j \in 1..(i - 1) : eventHandlers[j] # handler
       /\ eventHandlers' = SubSeq(eventHandlers, 1, i - 1)
                           \o SubSeq(eventHandlers, i + 1, Len(eventHandlers))
  /\ UNCHANGED <<fsWatcher, debounceTimer, isGenerating, lastGeneratedCode,
                 openWatchers, timers, pendingGenerations, generateCalls, now,
                 delivered, closing, starts, watcherHistory, otherVars>>

\* a chokidar watcher that is attached emits an event: handleEvent(event)
fsEvent(event) ==
  /\ openWatchers # {}
  /\ inputs < MaxInputs
  /\ inputs' = inputs + 1
  /\ delivered' = Deliver(event)
  /\ IF event \in {"change", "add"}
     THEN /\ timers' = debouncedRegenerate(timers).timers
          /\ debounceTimer' = debouncedRegenerate(timers).debounceTimer
          /\ lastEventAt' = <<now>>
          /\ owed' = TRUE
          /\ requests' = IF owed THEN requests ELSE requests + 1
          /\ missed' = (missed \/ pendingGenerations > 0)
          /\ missedRuns' = IF ~missed /\ pendingGenerations > 0
                           THEN missedRuns + 1 ELSE missedRuns
     ELSE UNCHANGED <<timers, debounceTimer, lastEventAt, owed, requests,
                      missed, missedRuns>>
  /\ UNCHANGED <<fsWatcher, isGenerating, eventHandlers, lastGeneratedCode,
                 openWatchers, pendingGenerations, generateCalls, now, closing, starts,
                 stopped, stops, debounced, followUps, afterStop, failures, otherVars>>

\* a pending timer fires, at its time or later: void this.regenerate()
timerFires ==
  /\ \E t \in timers :
       /\ t.due <= now
       /\ regenerate(timers \ {t}, TRUE)
  /\ UNCHANGED <<fsWatcher, eventHandlers, lastGeneratedCode, openWatchers, now,
                 delivered, closing, starts, inputs, stopped, stops, lastEventAt,
                 missedRuns, failures, otherVars>>

\* this.lastGeneratedCode = await this.generator.generate(this.options) when
\* the promise is fulfilled: the result of the call, then the finally
generationResolves ==
  /\ pendingGenerations > 0
  /\ pendingGenerations' = pendingGenerations - 1
  /\ lastGeneratedCode' = <<generateCalls>>
  /\ isGenerating' = AfterFinally
  /\ UNCHANGED <<fsWatcher, debounceTimer, eventHandlers, openWatchers, timers,
                 generateCalls, now, delivered, closing, starts, inputs,
                 watcherHistory, otherVars>>

\* the promise is rejected: catch (error) { this.handleEvent('error', ...) },
\* then the finally
generationRejects ==
  /\ pendingGenerations > 0
  /\ pendingGenerations' = pendingGenerations - 1
  /\ delivered' = Deliver("error")
  /\ failures' = failures + 1
  /\ isGenerating' = AfterFinally
  /\ UNCHANGED <<fsWatcher, debounceTimer, eventHandlers, lastGeneratedCode,
                 openWatchers, timers, generateCalls, now, closing, starts, inputs,
                 stopped, stops, lastEventAt, owed, requests, debounced,
                 missed, missedRuns, followUps, afterStop, otherVars>>

\* time passes
tick ==
  /\ now + Tick <= MaxTime
  /\ now' = now + Tick
  /\ UNCHANGED <<watcherFields, openWatchers, timers, pendingGenerations,
                 generateCalls, delivered, closing, starts, inputs,
                 watcherHistory, otherVars>>

WatcherInit ==
  /\ WatcherNew
  /\ BuilderNew /\ RunIdle /\ MergeIdle /\ DepIdle /\ PipelineOff
  /\ EmitIdle /\ RelIdle

WatcherNext ==
  \/ start
  \/ stop
  \/ stopReturns
  \/ \E h \in Handlers : on(h)
  \/ \E h \in Handlers : off(h)
  \/ \E e \in FsEvents : fsEvent(e)
  \/ timerFires
  \/ generationResolves
  \/ generationRejects
  \/ tick

SpecWatcher == WatcherInit /\ [][WatcherNext]_vars

(* ---------------------------------------------------------------------- *)
(* Emitter: writeGeneratedCode                                             *)
(* ---------------------------------------------------------------------- *)
\* what one file of code.files meets: whether the file is on disk and
\* whether the entry has overwrite: true, and what happens to it
DiskStates == {"absent", "present", "presentOverwrite"}

Fates == {"fine", "beforeWriteNull", "beforeWriteThrows", "writeFails", "afterWriteThrows"}

EmitFiles ==
  [path : {"a.ts", "b.ts"}, disk : DiskStates, fate : Fates]

EmitOptionsSet ==
  { [overwrite |-> o, dryRun |-> d, createDirs |-> Undefined,
     beforeWrite |-> h, afterWrite |-> h] :
      o \in {Undefined, "false"}, d \in {Undefined, "true"}, h \in {Undefined, "hook"} }

\* const {overwrite = true, dryRun = false} = options
OverwriteOption(o) == o.overwrite # "false"

DryRunOption(o) == o.dryRun = "true"

\* join(resolvedOutput, file.path)
FilePath(file) == <<"out", file.path>>

\* Buffer.byteLength(processedFile.content, encoding)
ByteLength(file) == IF file.path = "a.ts" THEN 1 ELSE 2

\* the error that was thrown for a file
FileError(file) == <<file.fate>>

\* the body of the loop for one file: "written", "skipped", or "failed"
\* when something inside the try block threw
FileOutcome(file, o) ==
  IF o.beforeWrite # Undefined /\ file.fate = "beforeWriteThrows" THEN "failed"
  ELSE IF o.beforeWrite # Undefined /\ file.fate = "beforeWriteNull" THEN "skipped"
  ELSE IF ~OverwriteOption(o) /\ file.disk = "present" THEN "skipped"
  ELSE IF ~DryRunOption(o) /\ file.fate = "writeFails" THEN "failed"
  ELSE IF ~DryRunOption(o) /\ o.afterWrite # Undefined /\ file.fate = "afterWriteThrows"
  THEN "failed"
  ELSE "written"

\* mutant: what a file throws leaves the loop
Caught_Rethrown == FALSE

\* try { ... } catch (error) { result.failed.push(...) } around the body
Caught == TRUE

\* writeGeneratedCode(code, outputDir, options) up to its loop: the output
\* directory is there, is created, or cannot be created
writeGeneratedCode ==
  /\ emitPc = "call"
  /\ \E outputDir \in {"there", "created", "denied"} :
       IF ~DryRunOption(emitOptions) /\ outputDir = "denied"
       THEN emitPc' = "rejected"
       ELSE emitPc' = "loop"
  /\ UNCHANGED <<emitCode, emitOptions, emitIdx, emitResult,
                 mergeVars, depVars, builderVars, runVars, pipeVars, watchVars, relVars>>

\* for (const file of code.files): one file
emitFile ==
  /\ emitPc = "loop"
  /\ emitIdx <= Len(emitCode)
  /\ LET file == emitCode[emitIdx]
         outcome == FileOutcome(file, emitOptions)
     IN IF outcome = "failed" /\ ~Caught
        THEN emitPc' = "rejected" /\ UNCHANGED <<emitIdx, emitResult>>
        ELSE /\ emitIdx' = emitIdx + 1
             /\ emitPc' = emitPc
             /\ emitResult' =
                  CASE outcome = "written" ->
                         [emitResult EXCEPT
                            !.written = Append(@, FilePath(file)),
                            !.totalBytes = @ + ByteLength(file)]
                    [] outcome = "skipped" ->
                         [emitResult EXCEPT !.skipped = Append(@, FilePath(file))]
                    [] outcome = "failed" ->
                         [emitResult EXCEPT
                            !.failed = Append(@, [path |-> FilePath(file),
                                                   error |-> FileError(file)])]
  /\ UNCHANGED <<emitCode, emitOptions,
                 mergeVars, depVars, builderVars, runVars, pipeVars, watchVars, relVars>>

\* return result
emitReturn ==
  /\ emitPc = "loop"
  /\ emitIdx > Len(emitCode)
  /\ emitPc' = "returned"
  /\ UNCHANGED <<emitCode, emitOptions, emitIdx, emitResult,
                 mergeVars, depVars, builderVars, runVars, pipeVars, watchVars, relVars>>

EmitInit ==
  /\ emitCode \in SeqsUpTo(EmitFiles, MaxEmitFiles)
  /\ emitOptions \in EmitOptionsSet
  /\ emitIdx = 1
  /\ emitResult = NewEmitResult
  /\ emitPc = "call"
  /\ BuilderNew /\ RunIdle /\ MergeIdle /\ DepIdle /\ PipelineOff
  /\ WatcherNew /\ RelIdle

EmitNext ==
  \/ writeGeneratedCode
  \/ emitFile
  \/ emitReturn

SpecEmit == EmitInit /\ [][EmitNext]_vars

(* ---------------------------------------------------------------------- *)
(* Prisma parser: extractRelations                                         *)
(* ---------------------------------------------------------------------- *)
\* field.relation of a field without @relation
NoRelation == [model |-> Undefined, field |-> Undefined, name |-> <<>>, type |-> Undefined]

\* the FieldRelation extractRelation builds for @relation on a field of
\* type target; name is <<>> when the attribute names no relation
FieldRelation(target, name) ==
  [model |-> target, field |-> "id", name |-> name, type |-> "many-to-one"]

\* fields as convertField returns them: two relations to models that may
\* be there, one to a model that never is, and a scalar
RelationFields ==
  { [name |-> "author", relation |-> FieldRelation("User", <<>>)],
    [name |-> "posts",  relation |-> FieldRelation("Post", <<"written">>)],
    [name |-> "tag",    relation |-> FieldRelation("Tag", <<>>)],
    [name |-> "title",  relation |-> NoRelation] }

\* models as convertModel returns them, with at most two fields
ModelSet ==
  [name : {"User", "Post"}, fields : SeqsUpTo(RelationFields, 2)]

\* mutant: the target model is not looked up
KnownModel_Any(modelNames, field) == field.relation # NoRelation

\* if (field.relation && modelNames.has(field.relation.model))
KnownModel(modelNames, field) ==
  field.relation # NoRelation /\ field.relation.model \in modelNames

\* the Relation pushed for a field of a model
RelationOf(model, field) ==
  [name |-> IF field.relation.name # <<>> THEN field.relation.name
            ELSE <<model.name, "_", field.name>>,
   type |-> field.relation.type,
   from |-> [model |-> model.name, field |-> field.name],
   to   |-> [model |-> field.relation.model, field |-> field.relation.field]]

\* extractRelations(models): the two nested loops
extractRelations(models) ==
  LET modelNames == {models[i].name : i \in 1..Len(models)}
      RECURSIVE fieldLoop(_, _)
      fieldLoop(model, j) ==
        IF j > Len(model.fields) THEN <<>>
        ELSE (IF KnownModel(modelNames, model.fields[j])
              THEN <<RelationOf(model, model.fields[j])>> ELSE <<>>)
             \o fieldLoop(model, j + 1)
      RECURSIVE modelLoop(_)
      modelLoop(i) ==
        IF i > Len(models) THEN <<>>
        ELSE fieldLoop(models[i], 1) \o modelLoop(i + 1)
  IN modelLoop(1)

\* schema.relations = extractRelations(schema.models)
convertToSchemaIR ==
  /\ relPc = "call"
  /\ relations' = extractRelations(parsedModels)
  /\ relPc' = "done"
  /\ UNCHANGED <<parsedModels,
                 mergeVars, depVars, builderVars, runVars, pipeVars, watchVars, emitVars>>

RelationsInit ==
  /\ parsedModels \in SeqsUpTo(ModelSet, MaxModels)
  /\ relations = <<>>
  /\ relPc = "call"
  /\ BuilderNew /\ RunIdle /\ MergeIdle /\ DepIdle /\ PipelineOff
  /\ WatcherNew /\ EmitIdle

RelationsNext == convertToSchemaIR

SpecRelations == RelationsInit /\ [][RelationsNext]_vars

(* ---------------------------------------------------------------------- *)
(* Properties of the builder and of generate()                             *)
(* ---------------------------------------------------------------------- *)
PathsOf(files) == {files[i].path : i \in 1..Len(files)}

IndicesAt(files, p) == {i \in 1..Len(files) : files[i].path = p}

FirstAt(files, p) == files[CHOOSE i \in IndicesAt(files, p) : \A j \in IndicesAt(files, p) : i <= j]

LastAt(files, p) == files[CHOOSE i \in IndicesAt(files, p) : \A j \in IndicesAt(files, p) : i >= j]

DistinctPaths(files) == \A p \in PathsOf(files) : Cardinality(IndicesAt(files, p)) = 1

NamesOf(list) == [i \in 1..Len(list) |-> list[i].name]

CallsOfKind(kind) == SelectSeq(calls, LAMBDA c : c.kind = kind)

OptionalCall(kind, name) == IF name = Undefined THEN <<>> ELSE <<Call(kind, name)>>

ListCalls(kind, list) == [i \in 1..Len(list) |-> Call(kind, list[i].name)]

\* the calls of a complete run, from the selections
ExpectedCalls ==
  OptionalCall("parser", selectedParser)
  \o ListCalls("generator", selectedGenerators)
  \o OptionalCall("adapter", selectedAdapter)
  \o ListCalls("auth", selectedAuth)
  \o OptionalCall("database", selectedDatabase)
  \o ListCalls("deploy", selectedDeploy)
  \o <<Call("collect", "dependencies")>>

Running == pc \notin {"idle", "threw"}

\* C1: the calls of a run are made one after another in the order parser,
\* every generator, the adapter if selected, every auth plugin, the database
\* plugin if selected, every deploy plugin, dependency collection; adapt is
\* called with every generator already called, and no auth, database or
\* deploy plugin is called before adapt.
C1_FixedCallOrder ==
  Running =>
    /\ Len(calls) <= Len(ExpectedCalls)
    /\ calls = SubSeq(ExpectedCalls, 1, Len(calls))
    /\ pc \in {"write", "done"} => calls = ExpectedCalls
    /\ \A i \in 1..Len(calls) :
         calls[i].kind = "adapter" =>
           /\ Len(SelectSeq(SubSeq(calls, 1, i), LAMBDA c : c.kind = "generator"))
                = Len(selectedGenerators)
           /\ \A j \in 1..i : calls[j].kind \notin {"auth", "database", "deploy", "collect"}

\* a finished run with a generator, the adapter, an auth plugin, the database
\* plugin and a deploy plugin
C1_Witness ==
  /\ pc = "done"
  /\ [i \in 1..Len(calls) |-> calls[i].kind]
       = <<"parser", "generator", "adapter", "auth", "database", "deploy", "collect">>

ContentAt(files, p) == FirstAt(files, p).content

\* C3: with the generators of priority 10 and 5 selected, in either order of
\* registration and without adapter, the returned common.ts is "high".
C3_HigherPriorityWins ==
  (/\ pc = "done"
   /\ selectedAdapter = Undefined
   /\ Len(selectedGenerators) = 2
   /\ Range(NamesOf(selectedGenerators)) = {"high", "low"}) =>
    /\ Cardinality(IndicesAt(code.files, "common.ts")) = 1
    /\ ContentAt(code.files, "common.ts") = "high"

EffectivePriority(e) == IF e.priority = <<>> THEN 0 ELSE e.priority[1]

\* descending priority, registration order among equals, nothing lost
StablyOrdered(list) ==
  /\ {list[i].reg : i \in 1..Len(list)} = 1..Len(list)
  /\ \A i \in 1..Len(list) : \A j \in 1..Len(list) :
       i < j =>
         \/ EffectivePriority(list[i]) > EffectivePriority(list[j])
         \/ /\ EffectivePriority(list[i]) = EffectivePriority(list[j])
            /\ list[i].reg < list[j].reg

\* C4: the generator, auth and deploy lists are in descending priority, a
\* missing priority counting as 0, equal priorities in registration order,
\* and a run calls the plugins of each list in the order of the list.
C4_StablePriorityOrder ==
  /\ StablyOrdered(selectedGenerators)
  /\ StablyOrdered(selectedAuth)
  /\ StablyOrdered(selectedDeploy)
  /\ pc = "done" =>
       /\ CallsOfKind("generator") = ListCalls("generator", selectedGenerators)
       /\ CallsOfKind("auth") = ListCalls("auth", selectedAuth)
       /\ CallsOfKind("deploy") = ListCalls("deploy", selectedDeploy)

\* plain (no priority), high (10), zero (0) registered in this order and run
C4_Witness ==
  /\ pc = "done"
  /\ NamesOf(selectedGenerators) = <<"high", "plain", "zero">>
  /\ [i \in 1..3 |-> selectedGenerators[i].reg] = <<2, 1, 3>>
  /\ Len(CallsOfKind("generator")) = 3

\* the merge of the outputs of the first n generators of the list
RECURSIVE GeneratorsMerged(_)
GeneratorsMerged(n) ==
  IF n = 0 THEN EmptyCode
  ELSE Merged(GeneratorsMerged(n - 1), GeneratorGenerate(selectedGenerators[n].name, "ir"))

AfterAdapterStep == pc = "auth" /\ idx = 1 /\ selectedAdapter # Undefined

\* C5: right after the adapter step the accumulator is the value adapt
\* returned, and adapt was given the merge of all generator outputs; a file
\* or dependency adapt did not return is not in the accumulator.
C5_AdapterReplaces ==
  AfterAdapterStep =>
    /\ adaptInput = GeneratorsMerged(Len(selectedGenerators))
    /\ code = AdapterAdapt(selectedAdapter, adaptInput)
    /\ \A f \in Range(adaptInput.files) :
         f \notin Range(AdapterAdapt(selectedAdapter, adaptInput).files)
           => f \notin Range(code.files)
    /\ \A d \in Range(adaptInput.dependencies) :
         d \notin Range(AdapterAdapt(selectedAdapter, adaptInput).dependencies)
           => d \notin Range(code.dependencies)

\* the bare adapter after the generators high and low: their files and
\* dependency are gone
C5_Witness ==
  /\ AfterAdapterStep
  /\ selectedAdapter = "bare"
  /\ Range(NamesOf(selectedGenerators)) = {"high", "low"}
  /\ "common.ts" \in {adaptInput.files[i].path : i \in 1..Len(adaptInput.files)}
  /\ adaptInput.dependencies # <<>>
  /\ code.files = <<File("server.ts", "bare")>>
  /\ code.dependencies = <<>>

\* the calls made to plugins that throw
ThrowingCalls == {i \in 1..Len(calls) : PluginThrows(calls[i].name)}

Mentions(list, word) == \E i \in 1..Len(list) : word \in Range(list[i])

\* what a call of validate() on the present builder must return
ValidateReturns(v) ==
  /\ v.valid <=> (selectedParser # Undefined /\ selectedGenerators # <<>>)
  /\ selectedParser = Undefined => Mentions(v.errors, "parser")
  /\ (selectedParser # Undefined /\ selectedGenerators = <<>>)
       => Mentions(v.errors, "generators")
  /\ selectedAdapter = Undefined
       => Mentions(v.warnings, "adapter") /\ ~Mentions(v.errors, "adapter")
  /\ selectedAuth = <<>>
       => Mentions(v.warnings, "auth") /\ ~Mentions(v.errors, "auth")
  /\ selectedDatabase = Undefined
       => Mentions(v.warnings, "database") /\ ~Mentions(v.errors, "database")

\* C12: every call of validate() returns valid exactly when a parser and at
\* least one generator are selected, an error mentioning the parser when
\* there is none, an error mentioning generators when there is a parser and
\* no generator, only a warning for a missing adapter, auth or database
\* plugin, and leaves every selection as it was.
C12_ValidateReports ==
  [][(validation = NotValidated /\ validation' # NotValidated)
       => (ValidateReturns(validation') /\ UNCHANGED builderVars)]_vars

\* validate() on a builder with parser and generator and nothing else: valid
\* with three warnings
C12_Witness ==
  /\ validation.called
  /\ validation.valid
  /\ selectedParser # Undefined /\ selectedGenerators # <<>>
  /\ selectedAdapter = Undefined /\ selectedAuth = <<>> /\ selectedDatabase = Undefined
  /\ Len(validation.warnings) = 3

(* ---------------------------------------------------------------------- *)
(* Properties of mergeGeneratedCode                                        *)
(* ---------------------------------------------------------------------- *)
MergeReturned == mpc = "returned"

C10_MergeWithEmptyIsIdentity ==
  (MergeReturned /\ mB = EmptyCode /\ mOptions # "error") =>
    /\ ~mResult.threw
    /\ CodeOf(mResult) = mA

(* ---------------------------------------------------------------------- *)
(* Properties of mergeDependencies                                         *)
(* ---------------------------------------------------------------------- *)
DepIndicesAt(deps, n) == {i \in 1..Len(deps) : deps[i].name = n}

DepNames(deps) == {deps[i].name : i \in 1..Len(deps)}

\* the only entry of the name in the list
TheDep(deps, n) == deps[CHOOSE i \in DepIndicesAt(deps, n) : TRUE]

\* names that occur exactly once in each of the two lists
PairedNames(a, b) ==
  {n \in DepNames(a) \cap DepNames(b) :
     Cardinality(DepIndicesAt(a, n)) = 1 /\ Cardinality(DepIndicesAt(b, n)) = 1}

TupleGreater(s, t) ==
  \/ s[1] > t[1]
  \/ s[1] = t[1] /\ s[2] > t[2]
  \/ s[1] = t[1] /\ s[2] = t[2] /\ s[3] > t[3]

DepsMerged == dpc = "merged"

\* C6: a name in both lists whose versions have different (major, minor,
\* patch) tuples has exactly one entry in the result, with the version string
\* of the entry with the greater tuple, operator prefix included.
C6_GreaterTupleWins ==
  DepsMerged =>
    \A n \in PairedNames(dA, dB) :
      LET x == TheDep(dA, n)
          y == TheDep(dB, n)
          tx == VersionOf(x.version).tuple
          ty == VersionOf(y.version).tuple
      IN tx # ty =>
           /\ Cardinality(DepIndicesAt(dAcc, n)) = 1
           /\ TheDep(dAcc, n).version = (IF TupleGreater(tx, ty) THEN x.version ELSE y.version)

\* ^1.9.0 against >=1.10.0: the greater minor wins with its own operator
C6_Witness ==
  /\ DepsMerged
  /\ Len(dA) = 1 /\ Len(dB) = 1
  /\ dA[1].name = "pkg" /\ dB[1].name = "pkg"
  /\ dA[1].version = MkVersion(<<">", "=">>, 1, 10, 0, <<>>).str
  /\ dB[1].version = MkVersion(<<"^">>, 1, 9, 0, <<>>).str
  /\ Len(dAcc) = 1
  /\ dAcc[1].version = dA[1].version

\* C7: with equal tuples, a release beats a prerelease in either argument
\* order; two releases or two prereleases keep the entry that came first
\* (its dev flag apart, which an explicit false of either entry sets).
C7_ReleaseBeatsPrerelease ==
  DepsMerged =>
    \A n \in PairedNames(dA, dB) :
      LET x == TheDep(dA, n)
          y == TheDep(dB, n)
          vx == VersionOf(x.version)
          vy == VersionOf(y.version)
      IN vx.tuple = vy.tuple =>
           /\ Cardinality(DepIndicesAt(dAcc, n)) = 1
           /\ IF vx.release # vy.release
              THEN TheDep(dAcc, n).version = (IF vx.release THEN x.version ELSE y.version)
              ELSE TheDep(dAcc, n) \in {x, [x EXCEPT !.dev = "false"]}

\* merge(^1.0.0-beta.1, ^1.0.0) gives ^1.0.0
C7_Witness ==
  /\ DepsMerged
  /\ Len(dA) = 1 /\ Len(dB) = 1
  /\ dA[1].name = "pkg" /\ dB[1].name = "pkg"
  /\ dA[1].version = MkVersion(<<"^">>, 1, 0, 0, Beta1).str
  /\ dB[1].version = Caret100
  /\ Len(dAcc) = 1
  /\ dAcc[1].version = Caret100

\* C8: a name for which some contributed entry has dev false has dev false in
\* the merged list, after any number of merges in any argument order.
C8_DevFalseIsSticky ==
  dpc = "fold" =>
    \A e \in dContributed :
      e.dev = "false" =>
        /\ Cardinality(DepIndicesAt(dAcc, e.name)) = 1
        /\ TheDep(dAcc, e.name).dev = "false"

\* three merges in; the version that won came with dev true, another entry
\* of the name had dev false
C8_Witness ==
  /\ dpc = "fold" /\ dMerges >= 3
  /\ \E e \in dContributed, w \in dContributed :
       /\ e.name = w.name /\ e.dev = "false" /\ w.dev = "true"
       /\ e.version # w.version
       /\ Len(dAcc) = 1
       /\ dAcc[1].version = w.version
       /\ dAcc[1].dev = "false"
       /\ \A o \in dContributed :
            o = w \/ TupleGreater(VersionOf(w.version).tuple, VersionOf(o.version).tuple)

(* ---------------------------------------------------------------------- *)
(* Properties of collectDependencies                                       *)
(* ---------------------------------------------------------------------- *)
\* the names of every selected adapter, generator, auth, database and deploy
\* plugin
SelectedPluginNames ==
  (IF selectedAdapter = Undefined THEN {} ELSE {selectedAdapter})
  \cup Range(NamesOf(selectedGenerators))
  \cup Range(NamesOf(selectedAuth))
  \cup (IF selectedDatabase = Undefined THEN {} ELSE {selectedDatabase})
  \cup Range(NamesOf(selectedDeploy))

\* every dependency the run has to merge: those of the accumulated outputs
\* and those the selected plugins declare
Contributions ==
  Range(collectInput)
  \cup UNION {Range(GetDependencies(n)) \cup Range(GetPeerDependencies(n)) :
               n \in SelectedPluginNames}

Collected == pc \in {"write", "done"}

\* C13: the returned dependency list has one entry for each contributed
\* package name and no other, each with a contributed version that no
\* contributed version of that name exceeds; the mock generator alone, which
\* emits and declares the same dependency, yields one file and one dependency.
C13_CollectedDependencies ==
  Collected =>
    /\ DepNames(code.dependencies) = {d.name : d \in Contributions}
    /\ \A n \in DepNames(code.dependencies) :
         /\ Cardinality(DepIndicesAt(code.dependencies, n)) = 1
         /\ \E d \in Contributions :
              d.name = n /\ d.version = TheDep(code.dependencies, n).version
         /\ \A d \in Contributions :
              d.name = n =>
                ~TupleGreater(VersionOf(d.version).tuple,
                              VersionOf(TheDep(code.dependencies, n).version).tuple)
    /\ (/\ NamesOf(selectedGenerators) = <<"plain">>
        /\ selectedAdapter = Undefined /\ selectedAuth = <<>>
        /\ selectedDatabase = Undefined /\ selectedDeploy = <<>>)
         => Len(code.files) = 1 /\ Len(code.dependencies) = 1

\* a finished run in which pkg is emitted by two generators and declared by
\* one of them, by the database plugin and by a deploy plugin, and zod is
\* declared by the adapter only
C13_Witness ==
  /\ pc = "done"
  /\ selectedAdapter = "express"
  /\ selectedDatabase = "prisma"
  /\ Range(NamesOf(selectedGenerators)) = {"high", "low"}
  /\ NamesOf(selectedDeploy) = <<"docker">>
  /\ Cardinality({d \in Contributions : d.name = "pkg"}) >= 4
  /\ DepNames(code.dependencies) = {"pkg", "zod"}
  /\ Len(code.dependencies) = 2

(* ---------------------------------------------------------------------- *)
(* Properties of Pipeline.run                                              *)
(* ---------------------------------------------------------------------- *)
EventsWith(status) == SelectSeq(events, LAMBDA e : e.status = status)

StagesOf(evs) == [i \in 1..Len(evs) |-> evs[i].stage]

\* the stages of a complete run under the options
StagesToRun ==
  <<"parse", "validate", "transform", "generate", "postProcess">>
  \o (IF pOptions.write # "false" /\ pOptions.dryRun # "true" THEN <<"write">> ELSE <<>>)

IsPrefix(s, t) == Len(s) <= Len(t) /\ s = SubSeq(t, 1, Len(s))

Resolved == pPhase = "resolved"

RunRejected == pPhase = "rejected"

\* C14: the start events of a run are a prefix of parse, validate, transform,
\* generate, postProcess and, when options.write is not false and dryRun is
\* not set, write; every start event but the first comes right after the
\* complete event of the stage before it; a run that returned has started and
\* completed every one of these stages once.
C14_StagesInOrder ==
  /\ IsPrefix(StagesOf(EventsWith("start")), StagesToRun)
  /\ IsPrefix(StagesOf(EventsWith("complete")), StagesToRun)
  /\ \A i \in 2..Len(events) :
       events[i].status = "start" =>
         /\ events[i - 1].status = "complete"
         /\ \E k \in 2..Len(StagesToRun) :
              StagesToRun[k] = events[i].stage /\ StagesToRun[k - 1] = events[i - 1].stage
  /\ Resolved =>
       /\ StagesOf(EventsWith("start")) = StagesToRun
       /\ StagesOf(EventsWith("complete")) = StagesToRun
       /\ EventsWith("error") = <<>>

\* a run that returned after the write stage: six stages started and
\* completed
C14_Witness ==
  /\ Resolved
  /\ Len(events) = 12
  /\ events[11] = Event("write", "start")
  /\ written = pCode.files

\* the first transform of the list that throws, 0 when none does
FirstThrowing(list) ==
  IF \E i \in 1..Len(list) : TransformThrows(list[i])
  THEN CHOOSE i \in 1..Len(list) :
         TransformThrows(list[i]) /\ \A j \in 1..(i - 1) : ~TransformThrows(list[j])
  ELSE 0

\* the function of the stage throws, given that the stage is reached
StageFunctionThrows(stage) ==
  CASE stage = "parse"     -> selectedParser = Undefined \/ PluginThrows(selectedParser)
    [] stage = "validate"  -> selectedParser = Undefined \/ selectedGenerators = <<>>
    [] stage = "transform" -> FirstThrowing(pConfig.schemaTransforms) # 0
    [] stage = "generate"  -> \E i \in 1..Len(ExpectedCalls) : PluginThrows(ExpectedCalls[i].name)
    [] OTHER               -> FALSE

\* the error the function of the stage throws
StageFunctionError(stage) ==
  CASE stage = "parse"     -> IF selectedParser = Undefined THEN NoParserError
                              ELSE PluginError(selectedParser)
    [] stage = "validate"  -> [thrownBy |-> "Pipeline.validate",
                               message |-> <<"Validation", "failed:">>
                                           \o (IF selectedParser = Undefined
                                               THEN NoParserSelected
                                                    \o (IF selectedGenerators = <<>>
                                                        THEN <<",">> \o NoGeneratorsSelected
                                                        ELSE <<>>)
                                               ELSE NoGeneratorsSelected)]
    [] stage = "transform" -> TransformError(pConfig.schemaTransforms[
                                               FirstThrowing(pConfig.schemaTransforms)])
    [] stage = "generate"  -> error
    [] OTHER               -> NoError

FailingStage ==
  IF StageFunctionThrows("parse") THEN "parse"
  ELSE IF StageFunctionThrows("validate") THEN "validate"
  ELSE IF StageFunctionThrows("transform") THEN "transform"
  ELSE IF StageFunctionThrows("generate") THEN "generate"
  ELSE "none"

\* the code transforms applied one after another, written from the last one
RECURSIVE TransformedCode(_, _)
TransformedCode(c, list) ==
  IF list = <<>> THEN c
  ELSE ApplyCodeTransform(list[Len(list)], TransformedCode(c, SubSeq(list, 1, Len(list) - 1)))

\* every filter of the config returns true for the file
AcceptedByAll(file) ==
  \A i \in 1..Len(pConfig.fileFilters) : FilterAccepts(pConfig.fileFilters[i], file)

\* C16: whatever the hooks do, a run is rejected exactly when the function of
\* some stage throws, in the first such stage and with that function's error,
\* never with the error of a hook; otherwise it runs every stage and returns
\* the code, schema and warnings that follow from the builder, the transforms
\* and the filters alone.
C16_HookErrorsSwallowed ==
  /\ pError # HookError
  /\ RunRejected =>
       /\ pStage = FailingStage
       /\ pError = StageFunctionError(FailingStage)
  /\ Resolved =>
       /\ FailingStage = "none"
       /\ StagesOf(EventsWith("complete")) = StagesToRun
       /\ PipelineResult.schema = [ir |-> "ir", applied |-> pConfig.schemaTransforms]
       /\ PipelineResult.code.files
            = SelectSeq(TransformedCode(code, pConfig.codeTransforms).files, AcceptedByAll)
       /\ PipelineResult.warnings = ValidateWarnings

\* a run whose three hooks throw on every event returned after six stages
C16_Witness ==
  /\ Resolved
  /\ pConfig.hooks = AllHooks("throws")
  /\ Len(events) = 12
  /\ \A i \in 1..Len(events) : events[i].hook = "throws"

\* the schema the generator, auth and database plugins of this run were given
SchemaGivenToPlugins == [ir |-> schema, applied |-> <<>>]

\* C17: the schema given to the plugins in the generate stage is the schema
\* the run returns as result.schema, the output of the last schema transform.
C17_GeneratedFromTransformed ==
  Resolved => SchemaGivenToPlugins = PipelineResult.schema

\* C18: the schema after the transform stage is the parsed schema with the
\* schema transforms applied in the order of registration, each to the value
\* the one before it returned, and is the schema of the result; without
\* transforms it is the parsed schema; the code after the code transforms is
\* the output of the generate stage with the code transforms applied in the
\* same way.
C18_TransformsInOrder ==
  /\ (\E i \in 1..Len(events) : events[i] = Event("transform", "complete")) =>
       /\ pSchema.ir = "ir"
       /\ pSchema.applied = pConfig.schemaTransforms
       /\ Resolved => PipelineResult.schema = pSchema
  /\ (\E i \in 1..Len(events) : events[i] = Event("postProcess", "complete")) =>
       (pConfig.fileFilters = <<>> =>
          pCode = [code EXCEPT !.files = TransformedCode(code, pConfig.codeTransforms).files])

\* two different schema transforms were applied and the run returned
C18_Witness ==
  /\ Resolved
  /\ pConfig.schemaTransforms = <<"addSoftDelete", "addTimestamps">>
  /\ PipelineResult.schema.applied = <<"addSoftDelete", "addTimestamps">>

PostProcessDone == \E i \in 1..Len(events) : events[i] = Event("postProcess", "complete")

\* the function of the write stage has run
WriteDone == pStage = "write" /\ pPhase \in {"complete", "resolved"}

\* C19: after the postProcess stage the files of the code are those files of
\* the last code transform's output that every registered filter accepts, in
\* their order; a file that some filter rejects is not among them, and the
\* write stage writes these files only.
C19_FiltersAfterTransforms ==
  LET transformed == TransformedCode(code, pConfig.codeTransforms).files
  IN /\ PostProcessDone =>
          /\ pCode.files = SelectSeq(transformed, AcceptedByAll)
          /\ \A i \in 1..Len(transformed) :
               ~AcceptedByAll(transformed[i]) => transformed[i] \notin Range(pCode.files)
          /\ Resolved => PipelineResult.code.files = pCode.files
     /\ WriteDone =>
          /\ written = pCode.files
          /\ \A i \in 1..Len(transformed) :
               ~AcceptedByAll(transformed[i]) => transformed[i] \notin Range(written)
     /\ ~WriteDone => written = <<>>
     /\ Resolved => (WriteDone <=> (pOptions.write # "false" /\ pOptions.dryRun # "true"))

\* the README.md a code transform added is rejected by the .ts filter, and
\* common.ts by the other filter only: neither is in the result or written
C19_Witness ==
  /\ Resolved
  /\ WriteDone
  /\ pConfig.codeTransforms = <<"addReadme">>
  /\ pConfig.fileFilters = <<"onlyTs">>
  /\ "README.md" \in PathsOf(TransformedCode(code, pConfig.codeTransforms).files)
  /\ "README.md" \notin PathsOf(written)
  /\ written # <<>>

\* C20: whenever validate() reports valid: false, a rejected run has failed
\* in the validate stage with the error event of that stage emitted and an
\* error carrying validate()'s error entries, and the generate stage is never
\* started; a run that returned has every warning of validate() in its
\* warnings.
C20_InvalidFailsInValidate ==
  /\ ~(selectedParser # Undefined /\ selectedGenerators # <<>>) =>
       /\ ~Resolved
       /\ \A i \in 1..Len(events) : events[i].stage # "generate"
       /\ RunRejected =>
            /\ pStage = "validate"
            /\ events[Len(events)].stage = "validate"
            /\ events[Len(events)].status = "error"
            /\ \A k \in 1..Len(ValidationResult.errors) :
                 Range(ValidationResult.errors[k]) \subseteq Range(pError.message)
  /\ Resolved => Range(ValidationResult.warnings) \subseteq Range(PipelineResult.warnings)

(* ---------------------------------------------------------------------- *)
(* Properties of the Watcher                                               *)
(* ---------------------------------------------------------------------- *)
OneIf(b) == IF b THEN 1 ELSE 0

\* a timer that regenerate() armed again because a generation was in
\* progress: it is due later than the window after the last event
ArmedWhenBusy(t) == lastEventAt # <<>> /\ t.due > lastEventAt[1] + Debounce

\* C21: the watcher never has two calls of generator.generate pending: a
\* call begins only when none is pending, and isGenerating tells whether
\* one is
C21_OneGenerationInFlight ==
  /\ pendingGenerations <= 1
  /\ isGenerating <=> pendingGenerations = 1

\* a timer fired during a generation and was armed again instead of
\* starting a second one
C21_Witness ==
  /\ pendingGenerations = 1
  /\ \E t \in timers : ArmedWhenBusy(t)

\* C22: changes that arrive during a generation are followed by exactly
\* one further generation: while they are not followed up exactly one timer
\* is pending, every such episode gets one timer-begun generation, and
\* once nothing is asked for no timer is left (stop() never called)
C22_OneFollowUp ==
  stops = 0 =>
    /\ missedRuns = followUps + OneIf(missed)
    /\ missed => Cardinality(timers) = 1
    /\ ~owed => timers = {}

\* events arrived during the generation start() began, and the one
\* generation that followed it has begun and has left no timer
C22_Witness ==
  /\ stops = 0 /\ starts = 1
  /\ inputs >= 3 /\ Len(eventHandlers) = 0
  /\ missedRuns = 1 /\ followUps = 1 /\ ~missed
  /\ generateCalls = 2 /\ timers = {}

\* C23: at most one debounce timer is pending; every burst of changes gets
\* exactly one timer-begun generation (stop() never called); and such a
\* generation begins no earlier than Debounce after the last change
C23_Debounce ==
  /\ [](Cardinality(timers) <= 1)
  /\ [](stops = 0 => requests = debounced + OneIf(owed))
  /\ [][(debounced' > debounced /\ lastEventAt # <<>>)
          => now >= lastEventAt[1] + Debounce]_vars

\* changes, the last of them after time 0, were one request and have got
\* their one generation
C23_Witness ==
  /\ stops = 0 /\ starts = 1 /\ inputs = 3 /\ Len(eventHandlers) = 0
  /\ lastEventAt # <<>> /\ lastEventAt[1] > 0
  /\ requests = 1 /\ debounced = 1 /\ missedRuns = 0
  /\ timers = {}

\* C24: once stop() has been called (and start() not again) no timer is
\* armed and no timer begins a generation
C24_NothingAfterStop ==
  stopped => (timers = {} /\ afterStop = 0)

\* C30: a generation that fails releases the guard, gives the handlers the
\* error event, arms no timer, and leaves lastGeneratedCode as it was; and
\* whenever the guard is released a change arms the timer that begins the
\* next generation
C30_FailureLeavesWatcherUsable ==
  /\ [][failures' > failures =>
          /\ ~isGenerating'
          /\ timers' = timers
          /\ lastGeneratedCode' = lastGeneratedCode
          /\ Len(delivered') = Len(eventHandlers)
          /\ \A i \in 1..Len(delivered') : delivered'[i].event = "error"]_vars
  /\ []((failures > 0 /\ pendingGenerations = 0) => ~isGenerating)

\* the first generation succeeded, the second failed and the handler was
\* told, and a change after that has begun a third generation
C30_Witness ==
  /\ failures = 1 /\ generateCalls = 3 /\ isGenerating
  /\ lastGeneratedCode = <<1>>
  /\ Len(eventHandlers) = 1

(* ---------------------------------------------------------------------- *)
(* Properties of writeGeneratedCode                                        *)
(* ---------------------------------------------------------------------- *)
CountOf(seq, x) == Cardinality({i \in 1..Len(seq) : seq[i] = x})

FailedPaths == [i \in 1..Len(emitResult.failed) |-> emitResult.failed[i].path]

\* the files the loop has been through
Attempted == SubSeq(emitCode, 1, emitIdx - 1)

\* something throws while this file is processed or written
ThrowsFor(file) ==
  LET hooks == emitOptions.beforeWrite # Undefined
      dropped == hooks /\ file.fate = "beforeWriteNull"
      kept == emitOptions.overwrite = "false" /\ file.disk = "present"
      dry == emitOptions.dryRun = "true"
  IN \/ hooks /\ file.fate = "beforeWriteThrows"
     \/ /\ ~dropped /\ ~kept /\ ~dry
        /\ \/ file.fate = "writeFails"
           \/ hooks /\ file.fate = "afterWriteThrows"

\* C25: writeGeneratedCode goes through code.files in order; a file for
\* which something throws is recorded in failed with its path and error and
\* the loop goes on; the call is rejected for no file; and on return every
\* file is recorded once, in one of written, skipped and failed
C25_EveryFileAccounted ==
  /\ emitPc = "rejected" => (emitIdx = 1 /\ emitResult = NewEmitResult)
  /\ emitPc = "returned" => emitIdx = Len(emitCode) + 1
  /\ emitPc \in {"loop", "returned"} =>
       /\ \A file \in EmitFiles :
            CountOf(emitResult.written, FilePath(file))
              + CountOf(emitResult.skipped, FilePath(file))
              + CountOf(FailedPaths, FilePath(file))
            = Cardinality({i \in 1..Len(Attempted) : Attempted[i].path = file.path})
       /\ LET thrown == SelectSeq(Attempted, ThrowsFor)
          IN emitResult.failed =
               [i \in 1..Len(thrown) |->
                  [path |-> FilePath(thrown[i]), error |-> <<thrown[i].fate>>]]

\* the first of two files failed and the second was written after it
C25_Witness ==
  /\ emitPc = "returned"
  /\ Len(emitCode) = 2
  /\ Len(emitResult.failed) = 1
  /\ emitResult.failed[1].path = <<"out", emitCode[1].path>>
  /\ emitResult.written = <<(<<"out", emitCode[2].path>>)>>
  /\ emitResult.skipped = <<>>

(* ---------------------------------------------------------------------- *)
(* Properties of extractRelations                                          *)
(* ---------------------------------------------------------------------- *)
\* the fields of the parsed models, each with the model that declares it
DeclaredFields ==
  {<<i, j>> \in (1..Len(parsedModels)) \X (1..2) : j <= Len(parsedModels[i].fields)}

FieldAt(ij) == parsedModels[ij[1]].fields[ij[2]]

\* the declared fields with a relation hint to a model that is in models
RelatedFields ==
  {ij \in DeclaredFields :
     /\ FieldAt(ij).relation.model # Undefined
     /\ \E k \in 1..Len(parsedModels) : parsedModels[k].name = FieldAt(ij).relation.model}

\* C26: relations has exactly one entry for each field with a relation
\* hint to a model of models, from the declaring model and field to the
\* target model, and no entry to a model that is not in models
C26_RelationsDerived ==
  relPc = "done" =>
    /\ Len(relations) = Cardinality(RelatedFields)
    /\ \A ij \in RelatedFields :
         Cardinality({k \in 1..Len(relations) :
                        /\ relations[k].from.model = parsedModels[ij[1]].name
                        /\ relations[k].from.field = FieldAt(ij).name
                        /\ relations[k].to.model = FieldAt(ij).relation.model})
         = Cardinality({other \in RelatedFields :
                          /\ parsedModels[other[1]].name = parsedModels[ij[1]].name
                          /\ FieldAt(other).name = FieldAt(ij).name})
    /\ \A k \in 1..Len(relations) :
         \E m \in 1..Len(parsedModels) : parsedModels[m].name = relations[k].to.model

\* Post.author related to User gives the one entry Post to User, and the
\* field Post.tag to the missing model Tag gives none
C26_Witness ==
  /\ relPc = "done"
  /\ Len(parsedModels) = 2
  /\ parsedModels[1].name = "User" /\ parsedModels[1].fields = <<>>
  /\ parsedModels[2].name = "Post"
  /\ Len(parsedModels[2].fields) = 2
  /\ parsedModels[2].fields[1].name = "author"
  /\ parsedModels[2].fields[2].name = "tag"
  /\ Len(relations) = 1
  /\ relations[1].from.model = "Post" /\ relations[1].to.model = "User"

(* ---------------------------------------------------------------------- *)
(* Properties of the accumulator of generate()                             *)
(* ---------------------------------------------------------------------- *)
\* the accumulator after the adapter step
AfterAdapter ==
  IF selectedAdapter = Undefined THEN GeneratorsMerged(Len(selectedGenerators))
  ELSE AdapterAdapt(selectedAdapter, GeneratorsMerged(Len(selectedGenerators)))

\* ... with the outputs of the first n auth plugins merged in
RECURSIVE WithAuth(_)
WithAuth(n) ==
  IF n = 0 THEN AfterAdapter
  ELSE Merged(WithAuth(n - 1), AuthGenerate(selectedAuth[n].name, "ir"))

\* ... and the output of the database plugin
WithDatabase ==
  IF selectedDatabase = Undefined THEN WithAuth(Len(selectedAuth))
  ELSE Merged(WithAuth(Len(selectedAuth)), DatabaseGenerate(selectedDatabase, "ir"))

\* ... and the outputs of the deploy plugins before the k-th, each of them
\* given what was there before it
RECURSIVE BeforeDeploy(_)
BeforeDeploy(k) ==
  IF k = 1 THEN WithDatabase
  ELSE Merged(BeforeDeploy(k - 1),
              DeployGenerate(selectedDeploy[k - 1].name, BeforeDeploy(k - 1)))

\* C27: the k-th deploy plugin is given the whole accumulator as it stands:
\* what the adapter returned for the merged generator output, the auth and
\* database output, and the output of the deploy plugins before it; the
\* file of a deploy plugin that has not run yet is not in it
C27_DeployGivenAccumulator ==
  /\ Len(deployInput) <= Len(selectedDeploy)
  /\ \A k \in 1..Len(deployInput) :
       /\ deployInput[k] = BeforeDeploy(k)
       /\ \A j \in k..Len(selectedDeploy) :
            (\A i \in 1..(k - 1) : selectedDeploy[i].name # selectedDeploy[j].name)
              => selectedDeploy[j].name \notin PathsOf(deployInput[k].files)
  /\ pc = "done" => Len(deployInput) = Len(selectedDeploy)

\* two deploy plugins after an adapter, an auth plugin and the database
\* plugin: the second is given the file of the first, the first is not
\* given the file of the second
C27_Witness ==
  /\ pc = "done"
  /\ selectedAdapter = "express" /\ selectedDatabase = "prisma"
  /\ Len(selectedAuth) = 1
  /\ Len(selectedDeploy) = 2 /\ Len(deployInput) = 2
  /\ selectedDeploy[1].name # selectedDeploy[2].name
  /\ {"server.ts", "auth.ts", "db.ts"} \subseteq PathsOf(deployInput[1].files)
  /\ deployInput[1].dependencies # <<>>
  /\ selectedDeploy[1].name \in PathsOf(deployInput[2].files)
  /\ selectedDeploy[2].name \notin PathsOf(deployInput[1].files)

(* ---------------------------------------------------------------------- *)
(* Properties of the parser calls of a run                                 *)
(* ---------------------------------------------------------------------- *)
\* the calls of parser.parse made since the run began
ParserCalls == Len(CallsOfKind("parser"))

\* a generate() call that is not made by a pipeline has parsed
GenerateParsed == pPhase = "off" /\ pc \notin {"idle", "parse"} /\ error = NoError

\* C28: one run calls parser.parse once: never more than once from the
\* start of generate() or of Pipeline.run to its end, and exactly once in
\* a generate() call that got past parsing and in a pipeline run that
\* returned; the plugins are given the schema of that parse
C28_ParsedOnce ==
  /\ ParserCalls <= 1
  /\ GenerateParsed => (ParserCalls = 1 /\ schema = "ir")
  /\ (pPhase = "resolved" /\ pStage = "write") => ParserCalls = 1

(* ---------------------------------------------------------------------- *)
(* Properties of the files generate() returns                              *)
(* ---------------------------------------------------------------------- *)
\* C29: the file list generate() returns has no two files with one path,
\* whatever plugins are selected and whatever they return
C29_ReturnedPathsDistinct ==
  pc = "done" => DistinctPaths(code.files)
====
